---- MODULE Spec2Model ----
(***************************************************************************)
(* Model of the synchronisation layer (src/src/sync-utils.js), the task    *)
(* partition and thread-pool scheduler (src/src/worker.js), the worker     *)
(* thread message handler (src/processar.js, lines 431-479), the channel   *)
(* header (pgm-utils), the receiving side of the channel                   *)
(* (src/src/worker.js) and the orchestrator with its two child processes   *)
(* (src/processar.js, src/src/sender.js).                                  *)
(*                                                                         *)
(* JavaScript runs each synchronous segment of an async function to its    *)
(* next await without interruption.  One action of the model is one such   *)
(* segment; the order in which ready continuations run is left open, so    *)
(* every interleaving at suspension points is covered.  A promise that has *)
(* been resolved and whose awaiting continuation has not yet run is        *)
(* recorded in the variable resolved.                                      *)
(***************************************************************************)
EXTENDS Integers, Sequences, FiniteSets, TLC

\* ------------------------------------------------------------------ bounds
MaxCallers == 3
MaxLoops == 2
MaxCount == 2
MaxWaiters == 2
MaxTasks == 2
MaxHeight == 6
MaxProducers == 2
MaxConsumers == 2
MaxCapacity == 2
MaxItems == 4
MaxPoolHeight == 4
MaxPoolThreads == 3
MaxPoolWidth == 2
MaxDim == 2
MaxPayload == 5
ChunkBytes == 10
MaxSliceDim == 2
MaxExtraArgs == 3
\* sendImageData: rasters of up to MaxSendDim by MaxSendDim pixels
MaxSendDim == 2
\* counted Semaphore calls: at most MaxSemCalls of each kind
MaxSemCalls == 4
\* the valid range of the worker count
MinThreads == 1
MaxThreads == 32

Callers == 1..MaxCallers
\* the callers of taskCompleted() and of waitForCompletion()
TaskCallers == 1..MaxTasks
Waiters == (MaxTasks + 1)..(MaxTasks + MaxWaiters)
Resetter == MaxTasks + MaxWaiters + 1
Producers == 1..MaxProducers
Consumers == (MaxProducers + 1)..(MaxProducers + MaxConsumers)
Observer == MaxProducers + MaxConsumers + 1
\* the thread pool: task ids and worker ids count from 0; the listener of
\* task i is process i, and Main is processWithThreadPool itself
TaskIds == 0..(MaxPoolThreads - 1)
WorkerIds == 0..(MaxPoolThreads - 1)
Main == MaxPoolThreads

VARIABLES
    mutex,      \* the Mutex instance of the scenario: [locked, waitQueue]
    resolved,   \* resolved[p]: the promise caller p awaits has been resolved
    pc,         \* pc[p]: where caller p is suspended
    nCallers,   \* K: number of concurrent callers of withLock
    nLoops,     \* M: number of withLock calls each caller makes
    iter,       \* iter[p]: withLock calls caller p has finished
    local,      \* local[p]: the counter value caller p read inside its body
    counter,    \* the shared counter
    sem,        \* the Semaphore instance of the scenario: [count, waitQueue]
    arrival,    \* arrival[w]: the callers blocked in lock() / wait(), in the
                \* order they made the call
    handoff,    \* which primitives have resumed a waiter ahead of a later one
    semDone,        \* CompletionCoordinator.semDone
    remainingTasks, \* CompletionCoordinator.remainingTasks
    completed,      \* CompletionCoordinator.completed
    totalTasks,     \* N: the constructor's argument
    nCalls,         \* taskCompleted() calls made so far
    callIndex,      \* callIndex[p]: p's call is the callIndex[p]-th call
    signals,        \* semDone.signal() calls made so far
    signalCall,     \* the index of the call that delivered the signal, or 0
    firstWaiter,    \* the first caller of waitForCompletion(), or 0
    waitAt,         \* taskCompleted() calls that had run when it called, or -1
    height,         \* createTasks: the raster height H
    nthreads,       \* createTasks: the worker count W
    tasks,          \* the tasks createTasks returned
    created,        \* createTasks has been called
    width,          \* the raster width
    queue,          \* TaskQueue: [buffer, maxSize, head, tail, count]
    semItems,       \* TaskQueue.semItems
    semSpace,       \* TaskQueue.semSpace
    enqCalls,       \* enqueue() calls made so far
    deqCalls,       \* dequeue() calls made so far
    written,        \* the tasks written to the buffer, in order
    removed,        \* the slot contents dequeue() took from the buffer, in order
    lastSize,       \* what the last getSize() returned, or -1
    workerInbox,    \* workerInbox[w]: messages posted to worker w, not yet handled
    toMain,         \* toMain[w]: messages worker w posted, not yet delivered
    workerState,    \* workerState[w]: none, running, exited or terminated
    listening,      \* listening[i]: the message listener of task i is registered
    taskDone,       \* taskDone[i]: the listener's flag taskCompleted
    taskPromise,    \* taskPromise[i]: pending, resolved or rejected
    failing,        \* the tasks on which the transform raises an error
    attempts,       \* attempts[i]: times a worker ran the transform on task i
    errors,         \* the tasks for which a worker posted TASK_ERROR
    joined,         \* workers the final loop has terminated
    writes,         \* [worker, task, index]: the output bytes written, by whom
    inputWrites,    \* [worker, index]: the input bytes written, by whom
    sentTo,         \* sentTo[i]: the workers PROCESS_TASK i was posted to
    taskCalls,      \* taskCalls[i]: taskCompleted() calls made for task i
    errorsSeen,     \* the workers whose TASK_ERROR reached the listeners
    hdr,            \* the Header object being serialised
    hdrBuf,         \* the Buffer toBuffer() returned, or <<>>
    hdrOut,         \* the Header fromBuffer() filled in, or <<>>
    wire,           \* the bytes the channel carries before end-of-stream
    delivered,      \* how many of them 'data' events have delivered
    chunks,         \* receiveImageData: the chunks pushed so far
    ended,          \* the 'end' event has been handled
    rx,             \* receiveImageData's promise: pending, resolved, rejected
    pgm,            \* the PGM receiveImageData constructed, or <<>>
    fifoPath,       \* what the file system holds at this.fifoPath
    threads,        \* CONFIG.threads
    filtro,         \* CONFIG.filtro
    orchPc,         \* where the orchestrator process is
    senderPc,       \* where the sender process is
    workerPc,       \* where the worker process is
    senderPromise,  \* the promise of iniciarProcessoEmissor
    workerPromise,  \* the promise of iniciarProcessoTrabalhador
    outputExists,   \* the output file exists
    fifoCreated,    \* mkfifo has been run on this.fifoPath
    readerSaw,      \* what the worker process found when it opened the path
    unlockLog,      \* the last unlock() call: caller, mutex before and after
    outcome,        \* outcome[p]: what the body caller p passed to withLock does
    result,         \* result[p]: how the withLock call of caller p settled
    releases,       \* releases[p]: unlock() calls made by the withLock call of caller p
    callSaw,        \* callSaw[p]: p called on a full (empty) queue, unchanged since
    inputData,      \* the input pixels of the slice scenario
    sliceWidth,     \* the width passed to applySliceBlock
    sliceRows,      \* the number of rows of the block
    limite_a,       \* the lower threshold
    limite_b,       \* the upper threshold
    sliceOnce,      \* outputData after one application, or <<>>
    sliceTwice,     \* outputData after a second application, or <<>>
    argv,           \* process.argv.slice(2) of the worker process
    parsedArgs,     \* what parseArgs() returned, or <<>>
    argPc,          \* where the worker process is: start, parsed, opened, scheduled, exit1
    rasterMaxv,     \* maxv of the raster the channel delivers
    sendPgm,        \* the PGM passed to sendImageData
    sent,           \* the bytes handed to writeStream.write(), in order
    flushed,        \* how many of them have reached the channel
    streamState,    \* the write stream: none, opening, ended, finished or error
    sendResult,     \* the promise of sendImageData: none, pending, resolved, rejected
    semInitial,   \* the initialCount the Semaphore was created with
    signalCalls,    \* signal() calls made so far
    waitCalls,      \* wait() calls made so far
    resetArg,       \* the argument of the setTotalTasks call
    signalsAtReset  \* semDone.signal() calls made when setTotalTasks ran, or -1

syncVars == <<mutex, resolved, pc>>
counterVars == <<nCallers, nLoops, iter, local, counter>>
semVars == <<sem, arrival, handoff>>
coordVars == <<semDone, remainingTasks, completed, totalTasks>>
coordHistory == <<nCalls, callIndex, signals, signalCall, firstWaiter, waitAt>>
taskVars == <<height, nthreads, tasks, created, width>>
queueVars == <<queue, semItems, semSpace>>
queueHistory == <<enqCalls, deqCalls, written, removed, lastSize>>
poolHistory == <<writes, inputWrites, sentTo, taskCalls, errorsSeen>>
poolVars == <<workerInbox, toMain, workerState, listening, taskDone,
              taskPromise, failing, attempts, errors, joined, poolHistory>>
headerVars == <<hdr, hdrBuf, hdrOut>>
rxVars == <<wire, delivered, chunks, ended, rx, pgm>>
orchHistory == <<fifoCreated, readerSaw>>
orchVars == <<fifoPath, threads, filtro, orchPc, senderPc, workerPc,
              senderPromise, workerPromise, outputExists, orchHistory>>
unlockVars == <<unlockLog>>
withLockVars == <<outcome, result, releases>>
queueCallVars == <<callSaw>>
sliceVars == <<inputData, sliceWidth, sliceRows, limite_a, limite_b, sliceOnce, sliceTwice>>
argVars == <<argv, parsedArgs, argPc, rasterMaxv>>
sendVars == <<sendPgm, sent, flushed, streamState, sendResult>>
semCallVars == <<semInitial, signalCalls, waitCalls>>
resetVars == <<resetArg, signalsAtReset>>
vars == <<syncVars, counterVars, semVars, coordVars, coordHistory, taskVars,
          queueVars, queueHistory, poolVars, headerVars, rxVars,
        orchVars,
        unlockVars,
        withLockVars,
        queueCallVars,
        sliceVars,
        argVars,
        sendVars,
        semCallVars,
        resetVars>>

\* What the actions of one scenario leave alone.
exceptCounter == <<semVars, coordVars, coordHistory, taskVars, queueVars,
                   queueHistory, poolVars, headerVars, rxVars,
        orchVars,
        unlockVars,
        withLockVars,
        queueCallVars,
        sliceVars,
        argVars,
        sendVars,
        semCallVars,
        resetVars>>
exceptSem == <<counterVars, coordVars, coordHistory, taskVars, queueVars,
               queueHistory, poolVars, headerVars, rxVars,
        orchVars,
        unlockVars,
        withLockVars,
        queueCallVars,
        sliceVars,
        argVars,
        sendVars,
        semCallVars,
        resetVars>>
exceptCoord == <<counterVars, semVars, taskVars, queueVars, queueHistory, poolVars,
                 headerVars, rxVars,
        orchVars,
        unlockVars,
        withLockVars,
        queueCallVars,
        sliceVars,
        argVars,
        sendVars,
        semCallVars,
        resetVars>>
exceptTasks == <<syncVars, counterVars, semVars, coordVars, coordHistory,
                 queueVars, queueHistory, poolVars, headerVars, rxVars,
        orchVars,
        unlockVars,
        withLockVars,
        queueCallVars,
        sliceVars,
        argVars,
        sendVars,
        semCallVars,
        resetVars>>
exceptQueue == <<counterVars, semVars, coordVars, coordHistory, taskVars, poolVars,
                 headerVars, rxVars,
        orchVars,
        unlockVars,
        withLockVars,
        sliceVars,
        argVars,
        sendVars,
        semCallVars,
        resetVars>>
exceptPool == <<counterVars, semVars, queueVars, queueHistory, headerVars, rxVars,
        orchVars,
        unlockVars,
        withLockVars,
        queueCallVars,
        sliceVars,
        argVars,
        sendVars,
        semCallVars,
        resetVars>>
exceptHeader == <<syncVars, counterVars, semVars, coordVars, coordHistory, taskVars,
                  queueVars, queueHistory, poolVars, rxVars,
        orchVars,
        unlockVars,
        withLockVars,
        queueCallVars,
        sliceVars,
        argVars,
        sendVars,
        semCallVars,
        resetVars>>
exceptOrch == <<syncVars, counterVars, semVars, coordVars, coordHistory, taskVars,
                queueVars, queueHistory, poolVars, headerVars, rxVars,
        unlockVars,
        withLockVars,
        queueCallVars,
        sliceVars,
        argVars,
        sendVars,
        semCallVars,
        resetVars>>
exceptRx == <<counterVars, semVars, queueVars, queueHistory, headerVars,
        orchVars,
        unlockVars,
        withLockVars,
        queueCallVars,
        sliceVars,
        argVars,
        sendVars,
        semCallVars,
        resetVars>>
exceptUnlock == <<counterVars, semVars, coordVars, coordHistory,
        taskVars, queueVars, queueHistory, poolVars, headerVars, rxVars, orchVars,
        withLockVars,
        queueCallVars,
        sliceVars,
        argVars,
        sendVars,
        semCallVars,
        resetVars>>
exceptWithLock == <<counterVars, semVars, coordVars, coordHistory,
        taskVars, queueVars, queueHistory, poolVars, headerVars, rxVars, orchVars,
        unlockVars,
        queueCallVars,
        sliceVars,
        argVars,
        sendVars,
        semCallVars,
        resetVars>>
exceptSlice == <<syncVars, counterVars, semVars, coordVars, coordHistory,
        taskVars, queueVars, queueHistory, poolVars, headerVars, rxVars, orchVars,
        unlockVars, withLockVars, queueCallVars,
        argVars,
        sendVars,
        semCallVars,
        resetVars>>
exceptArgs == <<syncVars, counterVars, semVars, coordVars, coordHistory,
        taskVars, queueVars, queueHistory, poolVars, headerVars, rxVars, orchVars,
        unlockVars, withLockVars, queueCallVars, sliceVars,
        sendVars,
        semCallVars,
        resetVars>>
exceptSender == <<syncVars, counterVars, semVars, coordVars, coordHistory,
        taskVars, queueVars, queueHistory, poolVars, headerVars, rxVars, orchVars,
        unlockVars, withLockVars, queueCallVars, sliceVars, argVars,
        semCallVars,
        resetVars>>
exceptSemCalls == <<counterVars, coordVars, coordHistory,
        taskVars, queueVars, queueHistory, poolVars, headerVars, rxVars, orchVars,
        unlockVars, withLockVars, queueCallVars, sliceVars, argVars, sendVars,
        resetVars>>
exceptReset == <<counterVars, semVars, taskVars, queueVars, queueHistory,
        poolVars, headerVars, rxVars, orchVars,
        unlockVars, withLockVars, queueCallVars, sliceVars, argVars, sendVars,
        semCallVars>>

\* The variables of a scenario that is not running keep these values.
ParkedCounter ==
    /\ nCallers = 0 /\ nLoops = 0 /\ iter = <<>> /\ local = <<>> /\ counter = 0
ParkedSem ==
    /\ sem = [count |-> 0, waitQueue |-> <<>>]
    /\ arrival = <<>> /\ handoff = {}
ParkedCoord ==
    /\ semDone = [count |-> 0, waitQueue |-> <<>>]
    /\ remainingTasks = 0 /\ completed = FALSE /\ totalTasks = 0
    /\ nCalls = 0 /\ callIndex = <<>> /\ signals = 0 /\ signalCall = 0
    /\ firstWaiter = 0 /\ waitAt = -1
ParkedTasks ==
    /\ height = 0 /\ nthreads = 0 /\ tasks = <<>> /\ created = FALSE
    /\ width = 0
ParkedQueue ==
    /\ queue = <<>>
    /\ semItems = [count |-> 0, waitQueue |-> <<>>]
    /\ semSpace = [count |-> 0, waitQueue |-> <<>>]
    /\ enqCalls = 0 /\ deqCalls = 0
    /\ written = <<>> /\ removed = <<>> /\ lastSize = -1
    /\ callSaw = <<>>
ParkedPool ==
    /\ workerInbox = <<>> /\ toMain = <<>> /\ workerState = <<>>
    /\ listening = <<>> /\ taskDone = <<>> /\ taskPromise = <<>>
    /\ failing = {} /\ attempts = <<>> /\ errors = {} /\ joined = 0
    /\ writes = {} /\ inputWrites = {} /\ sentTo = <<>> /\ taskCalls = <<>>
    /\ errorsSeen = {}
ParkedHeader ==
    /\ hdr = <<>> /\ hdrBuf = <<>> /\ hdrOut = <<>>
ParkedRx ==
    /\ wire = <<>> /\ delivered = 0 /\ chunks = <<>> /\ ended = FALSE
    /\ rx = "pending" /\ pgm = <<>>
ParkedOrch ==
    /\ fifoPath = "absent" /\ threads = 0 /\ filtro = "" /\ orchPc = "idle"
    /\ senderPc = "none" /\ workerPc = "none"
    /\ senderPromise = "pending" /\ workerPromise = "pending"
    /\ outputExists = FALSE /\ fifoCreated = FALSE /\ readerSaw = "none"
ParkedUnlock ==
    /\ unlockLog = <<>>
ParkedWithLock ==
    /\ outcome = <<>>
    /\ result = <<>>
    /\ releases = <<>>
ParkedSlice ==
    /\ inputData = <<>>
    /\ sliceWidth = 0
    /\ sliceRows = 0
    /\ limite_a = 0
    /\ limite_b = 0
    /\ sliceOnce = <<>>
    /\ sliceTwice = <<>>
ParkedArgs ==
    /\ argv = <<>>
    /\ parsedArgs = <<>>
    /\ argPc = "idle"
    /\ rasterMaxv = 0
ParkedSender ==
    /\ sendPgm = <<>>
    /\ sent = <<>>
    /\ flushed = 0
    /\ streamState = "none"
    /\ sendResult = "none"
ParkedSemCalls ==
    /\ semInitial = 0
    /\ signalCalls = 0
    /\ waitCalls = 0
ParkedReset ==
    /\ resetArg = 0
    /\ signalsAtReset = -1

\* every scenario but those named in running is parked
ParkedExcept(running) ==
    /\ IF "counter" \in running THEN TRUE ELSE ParkedCounter
    /\ IF "sem" \in running THEN TRUE ELSE ParkedSem
    /\ IF "coord" \in running THEN TRUE ELSE ParkedCoord
    /\ IF "tasks" \in running THEN TRUE ELSE ParkedTasks
    /\ IF "queue" \in running THEN TRUE ELSE ParkedQueue
    /\ IF "pool" \in running THEN TRUE ELSE ParkedPool
    /\ IF "header" \in running THEN TRUE ELSE ParkedHeader
    /\ IF "rx" \in running THEN TRUE ELSE ParkedRx
    /\ IF "orch" \in running THEN TRUE ELSE ParkedOrch
    /\ IF "unlock" \in running THEN TRUE ELSE ParkedUnlock
    /\ IF "withLock" \in running THEN TRUE ELSE ParkedWithLock
    /\ IF "slice" \in running THEN TRUE ELSE ParkedSlice
    /\ IF "args" \in running THEN TRUE ELSE ParkedArgs
    /\ IF "sender" \in running THEN TRUE ELSE ParkedSender
    /\ IF "semCalls" \in running THEN TRUE ELSE ParkedSemCalls
    /\ IF "reset" \in running THEN TRUE ELSE ParkedReset

\* ------------------------------------------------------------------ Mutex
\* constructor: _locked = false, _waitQueue = []
NewMutex == [locked |-> FALSE, waitQueue |-> <<>>]

\* lock(): the promise executor.  resume is the set of callers whose promise
\* is resolved by this call.
MutexLock(m, p) ==
    IF ~m.locked
    THEN [mutex |-> [m EXCEPT !.locked = TRUE], resume |-> {p}]
    ELSE [mutex |-> [m EXCEPT !.waitQueue = Append(@, p)], resume |-> {}]

\* A release that always clears the held flag, also when it hands the lock
\* to a waiter.
MutexUnlockClearsFlag(m) ==
    IF ~m.locked
    THEN [mutex |-> m, resume |-> {}, threw |-> TRUE]
    ELSE IF Len(m.waitQueue) > 0
    THEN [mutex |-> [locked |-> FALSE, waitQueue |-> Tail(m.waitQueue)],
          resume |-> {Head(m.waitQueue)}, threw |-> FALSE]
    ELSE [mutex |-> [m EXCEPT !.locked = FALSE], resume |-> {}, threw |-> FALSE]

\* An unlock() that returns silently when the mutex is not locked.
MutexUnlockSilent(m) ==
    IF ~m.locked
    THEN [mutex |-> m, resume |-> {}, threw |-> FALSE]
    ELSE IF Len(m.waitQueue) > 0
    THEN [mutex |-> [m EXCEPT !.waitQueue = Tail(@)],
          resume |-> {Head(m.waitQueue)}, threw |-> FALSE]
    ELSE [mutex |-> [m EXCEPT !.locked = FALSE], resume |-> {}, threw |-> FALSE]

\* unlock(): throws when not locked; otherwise hands the lock to the head
\* waiter (the flag stays true) or clears the flag.
MutexUnlock(m) ==
    IF ~m.locked
    THEN [mutex |-> m, resume |-> {}, threw |-> TRUE]
    ELSE IF Len(m.waitQueue) > 0
    THEN [mutex |-> [m EXCEPT !.waitQueue = Tail(@)],
          resume |-> {Head(m.waitQueue)}, threw |-> FALSE]
    ELSE [mutex |-> [m EXCEPT !.locked = FALSE], resume |-> {}, threw |-> FALSE]

\* -------------------------------------------------------------- Semaphore
\* constructor: _count = initialCount, _waitQueue = []
NewSemaphore(initialCount) == [count |-> initialCount, waitQueue |-> <<>>]

\* A wait that decrements without looking at the counter.
SemWaitUnchecked(s, p) ==
    [sem |-> [s EXCEPT !.count = @ - 1], resume |-> {p}]

\* wait(): the promise executor
SemWait(s, p) ==
    IF s.count > 0
    THEN [sem |-> [s EXCEPT !.count = @ - 1], resume |-> {p}]
    ELSE [sem |-> [s EXCEPT !.waitQueue = Append(@, p)], resume |-> {}]

\* A signal that resumes the most recent waiter instead of the head.
SemSignalLast(s) ==
    IF Len(s.waitQueue) > 0
    THEN [sem |-> [s EXCEPT !.waitQueue = SubSeq(@, 1, Len(@) - 1)],
          resume |-> {s.waitQueue[Len(s.waitQueue)]}]
    ELSE [sem |-> [s EXCEPT !.count = @ + 1], resume |-> {}]

\* A signal that is dropped when nobody is waiting.
SemSignalDropped(s) ==
    IF Len(s.waitQueue) > 0
    THEN [sem |-> [s EXCEPT !.waitQueue = Tail(@)],
          resume |-> {Head(s.waitQueue)}]
    ELSE [sem |-> s, resume |-> {}]

\* A signal that increments the counter also when it resumes a waiter.
SemSignalAlwaysCounts(s) ==
    IF Len(s.waitQueue) > 0
    THEN [sem |-> [s EXCEPT !.waitQueue = Tail(@), !.count = @ + 1],
          resume |-> {Head(s.waitQueue)}]
    ELSE [sem |-> [s EXCEPT !.count = @ + 1], resume |-> {}]

\* signal(): resumes the head waiter, or increments the counter
SemSignal(s) ==
    IF Len(s.waitQueue) > 0
    THEN [sem |-> [s EXCEPT !.waitQueue = Tail(@)],
          resume |-> {Head(s.waitQueue)}]
    ELSE [sem |-> [s EXCEPT !.count = @ + 1], resume |-> {}]

\* resolve() of the callers in set r
Resolve(res, r) == [q \in DOMAIN res |-> res[q] \/ q \in r]

\* ------------------------------------------- K callers x M withLock loops
InitMutexScenario ==
    /\ mutex = NewMutex
    /\ resolved = [p \in Callers |-> FALSE]
    /\ nCallers \in 1..MaxCallers
    /\ nLoops \in 1..MaxLoops
    /\ pc = [p \in Callers |-> "idle"]
    /\ iter = [p \in Callers |-> 0]
    /\ local = [p \in Callers |-> 0]
    /\ counter = 0
    /\ ParkedExcept({"counter"})

\* withLock(fn), first segment: await this.lock()
CallWithLock(p) ==
    /\ p <= nCallers
    /\ pc[p] = "idle"
    /\ iter[p] < nLoops
    /\ LET r == MutexLock(mutex, p) IN
        /\ mutex' = r.mutex
        /\ resolved' = Resolve(resolved, r.resume)
    /\ pc' = [pc EXCEPT ![p] = "awaitLock"]
    /\ UNCHANGED <<nCallers, nLoops, iter, local, counter, exceptCounter>>

\* withLock(fn), after lock() resolved: fn() runs to its first await; the
\* body reads the shared counter and suspends.
EnterBody(p) ==
    /\ pc[p] = "awaitLock"
    /\ resolved[p]
    /\ resolved' = [resolved EXCEPT ![p] = FALSE]
    /\ local' = [local EXCEPT ![p] = counter]
    /\ pc' = [pc EXCEPT ![p] = "inBody"]
    /\ UNCHANGED <<mutex, nCallers, nLoops, iter, counter, exceptCounter>>

\* the body resumes and writes the counter back incremented
ResumeBody(p) ==
    /\ pc[p] = "inBody"
    /\ counter' = local[p] + 1
    /\ pc' = [pc EXCEPT ![p] = "awaitFn"]
    /\ UNCHANGED <<mutex, resolved, nCallers, nLoops, iter, local, exceptCounter>>

\* withLock(fn), after await fn(): finally { this.unlock() }
FinallyUnlock(p) ==
    /\ pc[p] = "awaitFn"
    /\ LET r == MutexUnlock(mutex) IN
        /\ mutex' = r.mutex
        /\ resolved' = Resolve(resolved, r.resume)
    /\ iter' = [iter EXCEPT ![p] = @ + 1]
    /\ pc' = [pc EXCEPT ![p] = IF iter[p] + 1 = nLoops THEN "done" ELSE "idle"]
    /\ UNCHANGED <<nCallers, nLoops, local, counter, exceptCounter>>

NextMutexScenario ==
    \E p \in Callers :
        \/ CallWithLock(p)
        \/ EnterBody(p)
        \/ ResumeBody(p)
        \/ FinallyUnlock(p)

SpecMutex == InitMutexScenario /\ [][NextMutexScenario]_vars

InBody(p) == pc[p] \in {"inBody", "awaitFn"}

\* C1: at most one caller of withLock is inside its body at any time, and
\* when all K callers have finished their M loops the shared counter that
\* each read, suspended on and wrote back incremented is exactly K*M.
C1_MutualExclusion ==
    /\ Cardinality({p \in Callers : InBody(p)}) <= 1
    /\ (\A p \in 1..nCallers : pc[p] = "done") => counter = nCallers * nLoops

C1_Witness ==
    /\ nCallers >= 2
    /\ nLoops >= 2
    /\ \A p \in 1..nCallers : pc[p] = "done"
    /\ counter = nCallers * nLoops

\* ------------------------- callers using one Mutex and one Semaphore freely
\* Each caller repeatedly makes one of the calls lock() (followed by unlock()
\* once it holds the lock), wait() or signal().
InitSync ==
    /\ mutex = NewMutex
    /\ resolved = [p \in Callers |-> FALSE]
    /\ pc = [p \in Callers |-> "idle"]
    /\ \E c \in 0..MaxCount : sem = NewSemaphore(c)
    /\ arrival = [awaitLock |-> <<>>, awaitSem |-> <<>>]
    /\ handoff = {}
    /\ ParkedExcept({"sem"})

\* the sequence q without the callers in r
Without(q, r) == SelectSeq(q, LAMBDA x : x \notin r)

\* await mutex.lock()
CallLock(p) ==
    /\ pc[p] = "idle"
    /\ LET r == MutexLock(mutex, p) IN
        /\ mutex' = r.mutex
        /\ resolved' = Resolve(resolved, r.resume)
        /\ arrival' = [arrival EXCEPT !.awaitLock = Without(Append(@, p), r.resume)]
    /\ pc' = [pc EXCEPT ![p] = "awaitLock"]
    /\ UNCHANGED <<sem, handoff, exceptSem>>

\* the continuation of await mutex.lock(): the caller holds the lock
AfterLock(p) ==
    /\ pc[p] = "awaitLock"
    /\ resolved[p]
    /\ resolved' = [resolved EXCEPT ![p] = FALSE]
    /\ pc' = [pc EXCEPT ![p] = "holding"]
    /\ UNCHANGED <<mutex, semVars, exceptSem>>

\* mutex.unlock() by the holder
CallUnlock(p) ==
    /\ pc[p] = "holding"
    /\ LET r == MutexUnlock(mutex) IN
        /\ mutex' = r.mutex
        /\ resolved' = Resolve(resolved, r.resume)
        /\ arrival' = [arrival EXCEPT !.awaitLock = Without(@, r.resume)]
        /\ handoff' = IF r.resume # {} /\ Without(arrival.awaitLock, r.resume) # <<>>
                      THEN handoff \cup {"mutex"} ELSE handoff
    /\ pc' = [pc EXCEPT ![p] = "idle"]
    /\ UNCHANGED <<sem, exceptSem>>

\* await sem.wait()
CallWait(p) ==
    /\ pc[p] = "idle"
    /\ LET r == SemWait(sem, p) IN
        /\ sem' = r.sem
        /\ resolved' = Resolve(resolved, r.resume)
        /\ arrival' = [arrival EXCEPT !.awaitSem = Without(Append(@, p), r.resume)]
    /\ pc' = [pc EXCEPT ![p] = "awaitSem"]
    /\ UNCHANGED <<mutex, handoff, exceptSem>>

\* the continuation of await sem.wait()
AfterWait(p) ==
    /\ pc[p] = "awaitSem"
    /\ resolved[p]
    /\ resolved' = [resolved EXCEPT ![p] = FALSE]
    /\ pc' = [pc EXCEPT ![p] = "idle"]
    /\ UNCHANGED <<mutex, semVars, exceptSem>>

\* sem.signal(); the counter is capped at MaxCount
CallSignal(p) ==
    /\ pc[p] = "idle"
    /\ sem.count < MaxCount
    /\ LET r == SemSignal(sem) IN
        /\ sem' = r.sem
        /\ resolved' = Resolve(resolved, r.resume)
        /\ arrival' = [arrival EXCEPT !.awaitSem = Without(@, r.resume)]
        /\ handoff' = IF r.resume # {} /\ Without(arrival.awaitSem, r.resume) # <<>>
                      THEN handoff \cup {"sem"} ELSE handoff
    /\ UNCHANGED <<mutex, pc, exceptSem>>

NextSync ==
    \E p \in Callers :
        \/ CallLock(p)
        \/ AfterLock(p)
        \/ CallUnlock(p)
        \/ CallWait(p)
        \/ AfterWait(p)
        \/ CallSignal(p)

SpecSync == InitSync /\ [][NextSync]_vars

\* C7: the counter of a Semaphore created with initialCount >= 0 is never
\* negative, whatever sequence of wait() and signal() calls is made.
C7_CountNonNegative == sem.count >= 0

\* a wait() found the counter at zero and is queued; the counter stayed zero
C7_Witness ==
    /\ Len(sem.waitQueue) > 0
    /\ sem.count = 0
    /\ \E p \in Callers : pc[p] = "awaitSem" /\ ~resolved[p]

\* C8: whenever a caller of lock() (of wait()) is resumed, it is the caller
\* that has been blocked longest on that primitive, and a call that is
\* granted at once overtakes no blocked caller: waiters are resumed in the
\* order they began waiting.
C8_FifoResume ==
    [][\A p \in Callers : \A w \in {"awaitLock", "awaitSem"} :
          (pc'[p] = w /\ ~resolved[p] /\ resolved'[p]) =>
              IF pc[p] = w
              THEN p = Head(arrival[w])
              ELSE arrival[w] = <<>>]_vars

\* both primitives have resumed a queued waiter while a later one stayed queued
C8_Witness == handoff = {"mutex", "sem"}

\* the callers whose promise is resolved by the step
Resumed == {q \in Callers : ~resolved[q] /\ resolved'[q]}

\* C30: signal() with a waiter queued resumes exactly the head waiter, takes
\* it off the queue and leaves the counter as it was; with no waiter queued
\* it increments the counter by one and resumes nobody.
C30_SignalHeadOrCount ==
    [][(sem' # sem /\ pc' = pc) =>
          IF sem.waitQueue # <<>>
          THEN /\ Resumed = {Head(sem.waitQueue)}
               /\ sem'.waitQueue = Tail(sem.waitQueue)
               /\ sem'.count = sem.count
          ELSE /\ Resumed = {}
               /\ sem'.waitQueue = <<>>
               /\ sem'.count = sem.count + 1]_vars

\* a signal() has resumed the head waiter, which has not run yet, while a
\* later waiter stayed queued and the counter stayed at zero
C30_Witness ==
    /\ "sem" \in handoff
    /\ sem.count = 0
    /\ \E p, q \in Callers :
          /\ pc[p] = "awaitSem" /\ resolved[p]
          /\ sem.waitQueue = <<q>>
          /\ pc[q] = "awaitSem" /\ ~resolved[q]

\* -------------------------------------------------- CompletionCoordinator
\* A body of taskCompleted() that signals whenever remaining <= 0, without
\* looking at the completed flag.
TaskCompletedBodyNoFlag(remaining, done) ==
    [remainingTasks |-> remaining - 1,
     completed |-> done \/ remaining - 1 <= 0,
     signal |-> remaining - 1 <= 0]

\* A body of taskCompleted() that signals only when remaining is exactly 0.
TaskCompletedBodyExactZero(remaining, done) ==
    [remainingTasks |-> remaining - 1,
     completed |-> done \/ remaining - 1 = 0,
     signal |-> remaining - 1 = 0 /\ ~done]

\* The function taskCompleted() runs under the mutex: decrement, and on
\* remaining <= 0 with completed still false set completed and signal semDone.
TaskCompletedBody(remaining, done) ==
    [remainingTasks |-> remaining - 1,
     completed |-> done \/ remaining - 1 <= 0,
     signal |-> remaining - 1 <= 0 /\ ~done]

\* new CompletionCoordinator(N), N >= 1, with callers of taskCompleted()
\* (each calls once; there may be more than N of them) and callers of
\* waitForCompletion().
InitCoord ==
    /\ mutex = NewMutex
    /\ semDone = NewSemaphore(0)
    /\ totalTasks \in 1..MaxTasks
    /\ remainingTasks = totalTasks
    /\ completed = FALSE
    /\ resolved = [p \in TaskCallers \cup Waiters |-> FALSE]
    /\ pc = [p \in TaskCallers \cup Waiters |-> "idle"]
    /\ nCalls = 0
    /\ callIndex = [p \in TaskCallers |-> 0]
    /\ signals = 0
    /\ signalCall = 0
    /\ firstWaiter = 0
    /\ waitAt = -1
    /\ ParkedExcept({"coord"})

\* taskCompleted(), first segment: withLock -> await this.lock()
TaskCompletedCall(p) ==
    /\ pc[p] = "idle"
    /\ LET r == MutexLock(mutex, p) IN
        /\ mutex' = r.mutex
        /\ resolved' = Resolve(resolved, r.resume)
    /\ pc' = [pc EXCEPT ![p] = "awaitLock"]
    /\ nCalls' = nCalls + 1
    /\ callIndex' = [callIndex EXCEPT ![p] = nCalls + 1]
    /\ UNCHANGED <<coordVars, signals, signalCall, firstWaiter, waitAt, exceptCoord>>

\* withLock, after lock() resolved: the function runs, synchronously
TaskCompletedRun(p) ==
    /\ pc[p] = "awaitLock"
    /\ resolved[p]
    /\ LET b == TaskCompletedBody(remainingTasks, completed)
           r == IF b.signal THEN SemSignal(semDone)
                ELSE [sem |-> semDone, resume |-> {}]
       IN
        /\ remainingTasks' = b.remainingTasks
        /\ completed' = b.completed
        /\ semDone' = r.sem
        /\ resolved' = Resolve([resolved EXCEPT ![p] = FALSE], r.resume)
        /\ signals' = IF b.signal THEN signals + 1 ELSE signals
        /\ signalCall' = IF b.signal THEN callIndex[p] ELSE signalCall
    /\ pc' = [pc EXCEPT ![p] = "awaitFn"]
    /\ UNCHANGED <<mutex, totalTasks, nCalls, callIndex, firstWaiter, waitAt, exceptCoord>>

\* withLock, after await fn(): finally { this.unlock() }
TaskCompletedUnlock(p) ==
    /\ pc[p] = "awaitFn"
    /\ LET r == MutexUnlock(mutex) IN
        /\ mutex' = r.mutex
        /\ resolved' = Resolve(resolved, r.resume)
    /\ pc' = [pc EXCEPT ![p] = "awaitWithLock"]
    /\ UNCHANGED <<coordVars, coordHistory, exceptCoord>>

\* taskCompleted(), after await this.mutex.withLock(...): the call returns
TaskCompletedReturn(p) ==
    /\ pc[p] = "awaitWithLock"
    /\ pc' = [pc EXCEPT ![p] = "done"]
    /\ UNCHANGED <<mutex, resolved, coordVars, coordHistory, exceptCoord>>

\* waitForCompletion(): await this.semDone.wait()
WaitForCompletionCall(w) ==
    /\ pc[w] = "idle"
    /\ LET r == SemWait(semDone, w) IN
        /\ semDone' = r.sem
        /\ resolved' = Resolve(resolved, r.resume)
    /\ pc' = [pc EXCEPT ![w] = "awaitDone"]
    /\ firstWaiter' = IF firstWaiter = 0 THEN w ELSE firstWaiter
    /\ waitAt' = IF firstWaiter = 0 THEN totalTasks - remainingTasks ELSE waitAt
    /\ UNCHANGED <<mutex, remainingTasks, completed, totalTasks,
                   nCalls, callIndex, signals, signalCall, exceptCoord>>

\* waitForCompletion(), after semDone.wait() resolved: the call returns
WaitForCompletionReturn(w) ==
    /\ pc[w] = "awaitDone"
    /\ resolved[w]
    /\ resolved' = [resolved EXCEPT ![w] = FALSE]
    /\ pc' = [pc EXCEPT ![w] = "returned"]
    /\ UNCHANGED <<mutex, coordVars, coordHistory, exceptCoord>>

TaskCaller(p) ==
    \/ TaskCompletedCall(p)
    \/ TaskCompletedRun(p)
    \/ TaskCompletedUnlock(p)
    \/ TaskCompletedReturn(p)

Waiter(w) ==
    \/ WaitForCompletionCall(w)
    \/ WaitForCompletionReturn(w)

NextCoord ==
    \/ \E p \in TaskCallers : TaskCaller(p)
    \/ \E w \in Waiters : Waiter(w)

SpecCoord == InitCoord /\ [][NextCoord]_vars

\* The event loop runs a continuation while one is ready, and a caller that
\* has not made its call yet makes it.
FairSpecCoord ==
    /\ SpecCoord
    /\ WF_vars(NextCoord)

\* taskCompleted() calls whose function has run
Decrements == totalTasks - remainingTasks

\* C2: a coordinator created with N >= 1 tasks signals semDone at most once,
\* has signalled exactly once as soon as N calls of taskCompleted() have run
\* and not before, and the signal is delivered by the N-th call made.
C2_SignalOnceAtNth ==
    /\ signals <= 1
    /\ (signals = 1) <=> (Decrements >= totalTasks)
    /\ (signals = 1) => (signalCall = totalTasks)
    /\ completed <=> (signals = 1)

\* more calls than N were made, the callers raced, one signal was delivered
\* at the N-th call
C2_Witness ==
    /\ totalTasks = MaxTasks - 1
    /\ \A p \in TaskCallers : pc[p] = "done"
    /\ Decrements = MaxTasks
    /\ signals = 1
    /\ signalCall = totalTasks

\* C31: once the completion signal has been delivered, a further
\* taskCompleted() still decrements remaining, also below zero, but the
\* completed flag stays true and semDone receives no second signal.
C31_NoSecondSignal ==
    [][completed =>
          /\ completed'
          /\ signals' = signals
          /\ semDone'.count <= semDone.count
          /\ \A p \in TaskCallers :
                (pc[p] = "awaitLock" /\ pc'[p] = "awaitFn") =>
                    remainingTasks' = remainingTasks - 1]_vars

\* taskCompleted() has run after the signal and took remaining below zero
C31_Witness ==
    /\ completed
    /\ remainingTasks < 0
    /\ signals = 1

\* new CompletionCoordinator(0), or new CompletionCoordinator(): the
\* constructor stores remaining = 0 and completed = false and signals nothing.
InitCoordZero ==
    /\ mutex = NewMutex
    /\ semDone = NewSemaphore(0)
    /\ totalTasks = 0
    /\ remainingTasks = totalTasks
    /\ completed = FALSE
    /\ resolved = [p \in TaskCallers \cup Waiters |-> FALSE]
    /\ pc = [p \in TaskCallers \cup Waiters |-> "idle"]
    /\ nCalls = 0
    /\ callIndex = [p \in TaskCallers |-> 0]
    /\ signals = 0
    /\ signalCall = 0
    /\ firstWaiter = 0
    /\ waitAt = -1
    /\ ParkedExcept({"coord"})

SpecCoordZero == InitCoordZero /\ [][NextCoord]_vars

\* C32: a coordinator constructed with totalTasks = 0 is not signalled at
\* construction: no waitForCompletion() is released and semDone stays at
\* zero until a taskCompleted() has run, and the first taskCompleted() made
\* delivers the one signal; while no taskCompleted() has run, every
\* waitForCompletion() stays blocked.
C32_ZeroTasksBlocks ==
    totalTasks = 0 =>
        /\ signals <= 1
        /\ (signals = 1) <=> (remainingTasks < 0)
        /\ (signals = 1) => (signalCall = 1)
        /\ (signals = 0) => semDone.count = 0
        /\ \A w \in Waiters :
              (resolved[w] \/ pc[w] = "returned") => signals = 1

\* waitForCompletion() was called on the zero-task coordinator before any
\* taskCompleted() had run, and returned after the first one signalled
C32_Witness ==
    /\ totalTasks = 0
    /\ firstWaiter # 0
    /\ waitAt = 0
    /\ pc[firstWaiter] = "returned"
    /\ signalCall = 1

\* ------------------------------------------------------------ createTasks
\* new Task(rowStart, rowEnd)
Task(rowStart, rowEnd) == [row_start |-> rowStart, row_end |-> rowEnd]

Min(a, b) == IF a <= b THEN a ELSE b

\* Math.floor(height / nthreads)
FloorDiv(h, n) == h \div n

\* Math.ceil(height / nthreads), for height >= 0 and nthreads >= 1
CeilDiv(h, n) == IF h % n = 0 THEN h \div n ELSE (h \div n) + 1

\* the for loop of createTasks, from index i on
RECURSIVE createTasksFrom(_, _, _, _, _)
createTasksFrom(i, acc, h, n, linesPerThread) ==
    IF i >= n THEN acc
    ELSE LET rowStart == i * linesPerThread
             rowEnd == Min((i + 1) * linesPerThread, h)
         IN createTasksFrom(i + 1,
                IF rowStart < h THEN Append(acc, Task(rowStart, rowEnd)) ELSE acc,
                h, n, linesPerThread)

\* createTasks with the block size rounded down
createTasksFloor(h, n) == createTasksFrom(0, <<>>, h, n, FloorDiv(h, n))

createTasks(h, n) == createTasksFrom(0, <<>>, h, n, CeilDiv(h, n))

InitTasks ==
    /\ height \in 0..MaxHeight
    /\ nthreads \in MinThreads..MaxThreads
    /\ width = 0
    /\ tasks = <<>>
    /\ created = FALSE
    /\ mutex = NewMutex
    /\ resolved = <<>>
    /\ pc = <<>>
    /\ ParkedExcept({"tasks"})

CreateTasks ==
    /\ ~created
    /\ tasks' = createTasks(height, nthreads)
    /\ created' = TRUE
    /\ UNCHANGED <<height, nthreads, width, exceptTasks>>

NextTasks == CreateTasks

SpecTasks == InitTasks /\ [][NextTasks]_vars

\* the rows of task t
Rows(t) == t.row_start..(t.row_end - 1)

\* C3: for every height H >= 0 and worker count W in 1..32 the row ranges
\* createTasks(H, W) returns are pairwise disjoint and their union is
\* exactly [0, H).
C3_Partition ==
    created =>
        /\ \A i, j \in 1..Len(tasks) : i # j => Rows(tasks[i]) \cap Rows(tasks[j]) = {}
        /\ UNION {Rows(tasks[i]) : i \in 1..Len(tasks)} = 0..(height - 1)

\* fewer tasks than workers, and a last task shorter than the others
C3_Witness ==
    /\ created
    /\ height = 5
    /\ nthreads = 4
    /\ tasks = <<Task(0, 2), Task(2, 4), Task(4, 5)>>

\* C34: every task createTasks(H, W) returns has 0 <= rowStart < rowEnd <= H
\* (no empty task, no row past the raster), and at most W tasks are returned.
C34_TasksWellFormed ==
    created =>
        /\ Len(tasks) <= nthreads
        /\ \A i \in 1..Len(tasks) :
              /\ 0 <= tasks[i].row_start
              /\ tasks[i].row_start < tasks[i].row_end
              /\ tasks[i].row_end <= height

\* more workers than rows: one task of one row per row, fewer tasks than
\* workers
C34_Witness ==
    /\ created
    /\ height = 3
    /\ nthreads > MaxHeight
    /\ Len(tasks) = 3
    /\ \A i \in 1..3 : tasks[i] = Task(i - 1, i)

\* -------------------------------------------------------------- TaskQueue
\* an array slot never assigned (undefined), and one cleared by dequeue (null)
Undefined == -1
Null == 0

\* constructor: buffer = new Array(maxSize), head = tail = count = 0
NewTaskQueue(maxSize) ==
    [buffer |-> [i \in 0..(maxSize - 1) |-> Undefined],
     maxSize |-> maxSize, head |-> 0, tail |-> 0, count |-> 0]

\* An enqueue that writes the slot and moves tail but does not count.
EnqueueBodyNoCount(q, task) ==
    [q EXCEPT !.buffer[q.tail] = task,
              !.tail = (q.tail + 1) % q.maxSize]

\* the function enqueue() runs under the mutex
EnqueueBody(q, task) ==
    [q EXCEPT !.buffer[q.tail] = task,
              !.tail = (q.tail + 1) % q.maxSize,
              !.count = q.count + 1]

\* A dequeue that takes the most recently written slot.
DequeueBodyNewest(q) ==
    LET last == (q.tail + q.maxSize - 1) % q.maxSize IN
    [task |-> q.buffer[last],
     queue |-> [q EXCEPT !.buffer[last] = Null,
                         !.tail = last,
                         !.count = q.count - 1]]

\* the function dequeue() runs under the mutex
DequeueBody(q) ==
    [task |-> q.buffer[q.head],
     queue |-> [q EXCEPT !.buffer[q.head] = Null,
                         !.head = (q.head + 1) % q.maxSize,
                         !.count = q.count - 1]]

\* A queue whose space semaphore starts one above the capacity.
InitialSpaceOneMore(maxSize) == maxSize + 1

\* constructor: semSpace = new Semaphore(maxSize)
InitialSpace(maxSize) == maxSize

\* new TaskQueue(maxSize) used by producers calling enqueue(), consumers
\* calling dequeue() (at most MaxItems calls of each) and a caller of getSize()
InitQueue ==
    /\ \E maxSize \in 1..MaxCapacity :
        /\ queue = NewTaskQueue(maxSize)
        /\ semSpace = NewSemaphore(InitialSpace(maxSize))
    /\ semItems = NewSemaphore(0)
    /\ mutex = NewMutex
    /\ resolved = [p \in Producers \cup Consumers \cup {Observer} |-> FALSE]
    /\ pc = [p \in Producers \cup Consumers \cup {Observer} |-> "idle"]
    /\ enqCalls = 0
    /\ deqCalls = 0
    /\ written = <<>>
    /\ removed = <<>>
    /\ lastSize = -1
    /\ callSaw = [p \in Producers \cup Consumers |-> FALSE]
    /\ ParkedExcept({"queue"})

\* enqueue(task): await this.semSpace.wait()
EnqueueCall(p) ==
    /\ pc[p] = "idle"
    /\ enqCalls < MaxItems
    /\ enqCalls' = enqCalls + 1
    /\ callSaw' = [callSaw EXCEPT ![p] = (queue.count = queue.maxSize)]
    /\ LET r == SemWait(semSpace, p) IN
        /\ semSpace' = r.sem
        /\ resolved' = Resolve(resolved, r.resume)
    /\ pc' = [pc EXCEPT ![p] = "awaitSpace"]
    /\ UNCHANGED <<mutex, queue, semItems, deqCalls, written, removed, lastSize,
                   exceptQueue>>

\* dequeue(): await this.semItems.wait()
DequeueCall(p) ==
    /\ pc[p] = "idle"
    /\ deqCalls < MaxItems
    /\ deqCalls' = deqCalls + 1
    /\ callSaw' = [callSaw EXCEPT ![p] = (queue.count = 0)]
    /\ LET r == SemWait(semItems, p) IN
        /\ semItems' = r.sem
        /\ resolved' = Resolve(resolved, r.resume)
    /\ pc' = [pc EXCEPT ![p] = "awaitItems"]
    /\ UNCHANGED <<mutex, queue, semSpace, enqCalls, written, removed,
                   lastSize, exceptQueue>>

\* getSize(): withLock -> await this.lock()
GetSizeCall(p) ==
    /\ pc[p] = "idle"
    /\ LET r == MutexLock(mutex, p) IN
        /\ mutex' = r.mutex
        /\ resolved' = Resolve(resolved, r.resume)
    /\ pc' = [pc EXCEPT ![p] = "awaitLock"]
    /\ UNCHANGED <<queueVars, queueHistory, exceptQueue,
                   callSaw>>

\* enqueue / dequeue, after the semaphore resolved: withLock -> await lock()
QueueLock(p) ==
    /\ pc[p] \in {"awaitSpace", "awaitItems"}
    /\ resolved[p]
    /\ LET r == MutexLock(mutex, p) IN
        /\ mutex' = r.mutex
        /\ resolved' = Resolve([resolved EXCEPT ![p] = FALSE], r.resume)
    /\ pc' = [pc EXCEPT ![p] = "awaitLock"]
    /\ callSaw' = [callSaw EXCEPT ![p] = FALSE]
    /\ UNCHANGED <<queueVars, queueHistory, exceptQueue>>

\* enqueue, holding the mutex: write at tail.  A task is named by the
\* position it takes in the order of writes: 1, 2, ...
EnqueueWrite(p) ==
    /\ pc[p] = "awaitLock"
    /\ resolved[p]
    /\ resolved' = [resolved EXCEPT ![p] = FALSE]
    /\ queue' = EnqueueBody(queue, Len(written) + 1)
    /\ written' = Append(written, Len(written) + 1)
    /\ callSaw' = [q \in DOMAIN callSaw |-> callSaw[q] /\ q \notin Consumers]
    /\ pc' = [pc EXCEPT ![p] = "awaitFn"]
    /\ UNCHANGED <<mutex, semItems, semSpace, enqCalls, deqCalls, removed,
                   lastSize, exceptQueue>>

\* dequeue, holding the mutex: read at head and clear the slot
DequeueRead(p) ==
    /\ pc[p] = "awaitLock"
    /\ resolved[p]
    /\ resolved' = [resolved EXCEPT ![p] = FALSE]
    /\ LET r == DequeueBody(queue) IN
        /\ queue' = r.queue
        /\ removed' = Append(removed, r.task)
    /\ callSaw' = [q \in DOMAIN callSaw |-> callSaw[q] /\ q \notin Producers]
    /\ pc' = [pc EXCEPT ![p] = "awaitFn"]
    /\ UNCHANGED <<mutex, semItems, semSpace, enqCalls, deqCalls, written,
                   lastSize, exceptQueue>>

\* getSize, holding the mutex: () => this.count
GetSizeRead(p) ==
    /\ pc[p] = "awaitLock"
    /\ resolved[p]
    /\ resolved' = [resolved EXCEPT ![p] = FALSE]
    /\ lastSize' = queue.count
    /\ pc' = [pc EXCEPT ![p] = "awaitFn"]
    /\ UNCHANGED <<mutex, queueVars, enqCalls, deqCalls, written, removed,
                   exceptQueue,
                   callSaw>>

\* withLock, after await fn(): finally { this.unlock() }
QueueUnlock(p) ==
    /\ pc[p] = "awaitFn"
    /\ LET r == MutexUnlock(mutex) IN
        /\ mutex' = r.mutex
        /\ resolved' = Resolve(resolved, r.resume)
    /\ pc' = [pc EXCEPT ![p] = "awaitWithLock"]
    /\ UNCHANGED <<queueVars, queueHistory, exceptQueue,
                   callSaw>>

\* enqueue, after await withLock: this.semItems.signal(); return
EnqueueSignal(p) ==
    /\ pc[p] = "awaitWithLock"
    /\ LET r == SemSignal(semItems) IN
        /\ semItems' = r.sem
        /\ resolved' = Resolve(resolved, r.resume)
    /\ pc' = [pc EXCEPT ![p] = "idle"]
    /\ UNCHANGED <<mutex, queue, semSpace, queueHistory, exceptQueue,
                   callSaw>>

\* dequeue, after await withLock: this.semSpace.signal(); return task
DequeueSignal(p) ==
    /\ pc[p] = "awaitWithLock"
    /\ LET r == SemSignal(semSpace) IN
        /\ semSpace' = r.sem
        /\ resolved' = Resolve(resolved, r.resume)
    /\ pc' = [pc EXCEPT ![p] = "idle"]
    /\ UNCHANGED <<mutex, queue, semItems, queueHistory, exceptQueue,
                   callSaw>>

\* getSize, after await withLock: return the count read
GetSizeReturn(p) ==
    /\ pc[p] = "awaitWithLock"
    /\ pc' = [pc EXCEPT ![p] = "idle"]
    /\ UNCHANGED <<mutex, resolved, queueVars, queueHistory, exceptQueue,
                   callSaw>>

NextQueue ==
    \/ \E p \in Producers :
        \/ EnqueueCall(p)
        \/ QueueLock(p)
        \/ EnqueueWrite(p)
        \/ QueueUnlock(p)
        \/ EnqueueSignal(p)
    \/ \E p \in Consumers :
        \/ DequeueCall(p)
        \/ QueueLock(p)
        \/ DequeueRead(p)
        \/ QueueUnlock(p)
        \/ DequeueSignal(p)
    \/ GetSizeCall(Observer)
    \/ GetSizeRead(Observer)
    \/ QueueUnlock(Observer)
    \/ GetSizeReturn(Observer)

SpecQueue == InitQueue /\ [][NextQueue]_vars

\* C4: under any interleaving of enqueue() and dequeue() calls the count of a
\* TaskQueue stays within 0..maxSize, and so does every value getSize()
\* returns.
C4_CountInRange ==
    /\ 0 <= queue.count /\ queue.count <= queue.maxSize
    /\ lastSize # -1 => (0 <= lastSize /\ lastSize <= queue.maxSize)

\* the queue is full, a producer is blocked on semSpace, getSize() returned
\* the capacity
C4_Witness ==
    /\ queue.count = queue.maxSize
    /\ lastSize = queue.maxSize
    /\ \E p \in Producers : pc[p] = "awaitSpace" /\ ~resolved[p]

\* s is a prefix of t
IsPrefix(s, t) == Len(s) <= Len(t) /\ \A i \in 1..Len(s) : s[i] = t[i]

\* C5: for every k the k-th task dequeue() removes from the buffer is the
\* k-th task enqueue() wrote to it.
C5_Fifo == IsPrefix(removed, written)

\* the ring buffer wrapped around: three tasks went through a queue of
\* capacity two and the fourth is in it
C5_Witness ==
    /\ queue.maxSize = 2
    /\ removed = <<1, 2, 3>>
    /\ Len(written) = 4

\* the slots of the buffer that hold a task
Occupied == {i \in DOMAIN queue.buffer : queue.buffer[i] \notin {Undefined, Null}}

\* C37: under any interleaving of producers and consumers, what dequeue()
\* takes from the slot at head is always a task, never an empty (undefined
\* or null) slot; and enqueue() never overwrites a task that has not been
\* dequeued: the buffer holds every task written and not yet removed.
C37_SlotsNeverLost ==
    /\ \A k \in 1..Len(removed) : removed[k] \notin {Undefined, Null}
    /\ Cardinality(Occupied) = Len(written) - Len(removed)

\* the buffer of capacity two is full after it wrapped around, and every
\* consumer has passed semItems.wait() and waits for the mutex
C37_Witness ==
    /\ queue.maxSize = 2
    /\ Cardinality(Occupied) = 2
    /\ Len(removed) >= 2
    /\ \A c \in Consumers : pc[c] = "awaitLock"

\* no enqueue() or dequeue() call is in progress
Quiescent == \A p \in Producers \cup Consumers : pc[p] = "idle"

\* C38: between the mutex-protected sections tail = (head + count) mod
\* maxSize, and whenever no enqueue() or dequeue() call is in progress the
\* counter of semItems equals count and the counter of semSpace equals
\* maxSize - count.
C38_RingAndSemaphores ==
    /\ queue.tail = (queue.head + queue.count) % queue.maxSize
    /\ Quiescent =>
          /\ semItems.count = queue.count
          /\ semSpace.count = queue.maxSize - queue.count

\* all calls have returned, head has moved on and wrapped, one task is left
C38_Witness ==
    /\ Quiescent
    /\ queue.maxSize = 2
    /\ Len(removed) = 3
    /\ queue.head = 1
    /\ queue.count = 1
    /\ semItems.count = 1

\* C23: an enqueue() call that found the queue holding maxSize tasks stays
\* suspended in semSpace.wait() for as long as no dequeue() has removed a
\* task since the call, and a dequeue() call that found the queue empty
\* stays suspended in semItems.wait() for as long as no enqueue() has added
\* a task since the call.
C23_BlocksAtLimit ==
    \A p \in Producers \cup Consumers :
        callSaw[p] =>
            /\ pc[p] = IF p \in Producers THEN "awaitSpace" ELSE "awaitItems"
            /\ ~resolved[p]

\* tasks have been removed before, the queue is full again, and an enqueue()
\* called on the full queue is suspended
C23_Witness ==
    /\ removed # <<>>
    /\ queue.count = queue.maxSize
    /\ \E p \in Producers : callSaw[p] /\ pc[p] = "awaitSpace" /\ ~resolved[p]

\* the steps of an enqueue() call after the call itself
ProducerContinue(p) ==
    QueueLock(p) \/ EnqueueWrite(p) \/ QueueUnlock(p) \/ EnqueueSignal(p)

\* the steps of a dequeue() call after the call itself
ConsumerContinue(p) ==
    QueueLock(p) \/ DequeueRead(p) \/ QueueUnlock(p) \/ DequeueSignal(p)

\* producers and consumers alone: nobody calls getSize()
NextProducersConsumers ==
    \/ \E p \in Producers : EnqueueCall(p) \/ ProducerContinue(p)
    \/ \E p \in Consumers : DequeueCall(p) \/ ConsumerContinue(p)

\* The event loop runs every continuation that is ready: a call that can
\* take its next step takes it.  Whether and when a call is made is left to
\* the callers.
FairSpecQueue ==
    /\ InitQueue
    /\ [][NextProducersConsumers]_vars
    /\ \A p \in Producers : WF_vars(ProducerContinue(p))
    /\ \A p \in Consumers : WF_vars(ConsumerContinue(p))

\* every enqueue() and dequeue() call made has returned
AllReturned == \A p \in Producers \cup Consumers : pc[p] = "idle"

\* C24: whatever the capacity and however the calls of the producers and
\* consumers interleave, if from some point on as many enqueue() as
\* dequeue() calls have been made (so no further call is made), then from
\* some point on every call has returned.
C24_NoDeadlock == <>[](enqCalls = deqCalls) => <>[]AllReturned

\* MaxItems tasks went through a queue of capacity one fed by producers
\* calling concurrently, and every call has returned
C24_Witness ==
    /\ queue.maxSize = 1
    /\ enqCalls = MaxItems /\ deqCalls = MaxItems
    /\ Len(removed) = MaxItems
    /\ AllReturned

\* ----------------------------------------------------------------- Header
\* the size of a serialised Header: six integers of four bytes
HeaderSize == 24
Fields == <<"w", "h", "maxv", "mode", "t1", "t2">>

\* 32-bit signed values with different bytes at every position
Int32Samples == {-2147483647 - 1, -2, 0, 255, 16909060, 2147483647}

\* buffer.writeInt32LE(v, offset), as the four bytes written: two's
\* complement, least significant byte first
WriteInt32LE(v) ==
    <<v % 256, (v \div 256) % 256, (v \div 65536) % 256, (v \div 16777216) % 256>>

\* The four bytes most significant first.
WriteInt32BE(v) ==
    <<(v \div 16777216) % 256, (v \div 65536) % 256, (v \div 256) % 256, v % 256>>

\* buffer.readInt32LE(offset); offset counts from 0
ReadInt32LE(buf, offset) ==
    LET top == buf[offset + 4] IN
    buf[offset + 1] + 256 * buf[offset + 2] + 65536 * buf[offset + 3]
        + 16777216 * (IF top >= 128 THEN top - 256 ELSE top)

\* new Header()
NewHeader == [w |-> 0, h |-> 0, maxv |-> 255, mode |-> 0, t1 |-> 0, t2 |-> 0]

\* A serialisation that writes every field big-endian.
toBufferBE(header) ==
    WriteInt32BE(header.w) \o WriteInt32BE(header.h) \o WriteInt32BE(header.maxv)
        \o WriteInt32BE(header.mode) \o WriteInt32BE(header.t1)
        \o WriteInt32BE(header.t2)

\* Header.toBuffer()
toBuffer(header) ==
    WriteInt32LE(header.w) \o WriteInt32LE(header.h) \o WriteInt32LE(header.maxv)
        \o WriteInt32LE(header.mode) \o WriteInt32LE(header.t1)
        \o WriteInt32LE(header.t2)

\* Header.fromBuffer(buffer), as the field values it assigns
fromBuffer(buf) ==
    [w |-> ReadInt32LE(buf, 0), h |-> ReadInt32LE(buf, 4),
     maxv |-> ReadInt32LE(buf, 8), mode |-> ReadInt32LE(buf, 12),
     t1 |-> ReadInt32LE(buf, 16), t2 |-> ReadInt32LE(buf, 20)]

\* a Header whose six fields hold 32-bit signed integers
InitHeader ==
    /\ hdr \in [{"w", "h", "maxv", "mode", "t1", "t2"} -> Int32Samples]
    /\ hdrBuf = <<>>
    /\ hdrOut = <<>>
    /\ mutex = NewMutex
    /\ resolved = <<>>
    /\ pc = <<>>
    /\ ParkedExcept({"header"})

\* header.toBuffer()
ToBuffer ==
    /\ hdrBuf = <<>>
    /\ hdrBuf' = toBuffer(hdr)
    /\ UNCHANGED <<hdr, hdrOut, exceptHeader>>

\* new Header().fromBuffer(buffer)
FromBuffer ==
    /\ hdrBuf # <<>>
    /\ hdrOut = <<>>
    /\ hdrOut' = fromBuffer(hdrBuf)
    /\ UNCHANGED <<hdr, hdrBuf, exceptHeader>>

NextHeader == ToBuffer \/ FromBuffer

SpecHeader == InitHeader /\ [][NextHeader]_vars

\* the value four bytes hold as a little-endian two's-complement integer:
\* the unsigned value, less 2^32 when the top bit is set
\* (written so that no intermediate value leaves 32 bits)
LittleEndianValue(b) ==
    (b[4] % 128) * 16777216 + b[3] * 65536 + b[2] * 256 + b[1]
        + (IF b[4] >= 128 THEN -2147483647 - 1 ELSE 0)

\* C13: for a header of six 32-bit signed fields, toBuffer yields exactly 24
\* bytes that hold w, h, maxv, mode, t1, t2 in this order, four bytes each,
\* little-endian, and fromBuffer of these bytes gives back all six fields.
C13_HeaderRoundTrip ==
    /\ hdrBuf # <<>> =>
        /\ Len(hdrBuf) = HeaderSize
        /\ \A k \in 1..6 :
              /\ \A j \in 1..4 : hdrBuf[4 * (k - 1) + j] \in 0..255
              /\ LittleEndianValue(SubSeq(hdrBuf, 4 * k - 3, 4 * k)) = hdr[Fields[k]]
    /\ hdrOut # <<>> => \A k \in 1..6 : hdrOut[Fields[k]] = hdr[Fields[k]]

\* a header with the extreme values, a negative one and one whose four
\* bytes differ has been serialised and read back
C13_Witness ==
    /\ hdrOut # <<>>
    /\ hdr.w = -2147483647 - 1
    /\ hdr.h = 2147483647
    /\ hdr.maxv = 255
    /\ hdr.mode = -2
    /\ hdr.t1 = 16909060
    /\ SubSeq(hdrBuf, 17, 20) = <<4, 3, 2, 1>>

\* --------------------------------------------------- processWithThreadPool
\* the messages between processWithThreadPool and its worker threads
\* A PROCESS_TASK message that always names the first task.
ProcessTaskMsgFirst(i) == [type |-> "PROCESS_TASK", taskId |-> 0]

\* worker.postMessage({type: 'PROCESS_TASK', task: tasks[i], taskId: i})
ProcessTaskMsg(i) == [type |-> "PROCESS_TASK", taskId |-> i]
TerminateMsg == [type |-> "TERMINATE", taskId |-> Undefined]
TaskCompletedMsg(i) == [type |-> "TASK_COMPLETED", taskId |-> i]
\* the worker thread posts {type, threadId, task, error}: no taskId
TaskErrorMsg(i) == [type |-> "TASK_ERROR", taskId |-> Undefined]

\* the worker the distribution loop picks for task i
WorkerOf(i, nth) == i % nth

\* the task ids sent to worker w, in the order of the distribution loop
RECURSIVE TasksOf(_, _, _, _)
TasksOf(w, i, n, nth) ==
    IF i >= n THEN <<>>
    ELSE IF WorkerOf(i, nth) = w
         THEN <<ProcessTaskMsg(i)>> \o TasksOf(w, i + 1, n, nth)
    ELSE TasksOf(w, i + 1, n, nth)

\* processWithThreadPool(inputPgm, mode, t1, t2, nthreads) on a raster of
\* height H, with the transform raising an error on the tasks in failing
InitPool ==
    /\ height \in 0..MaxPoolHeight
    /\ width \in 0..MaxPoolWidth
    /\ nthreads \in MinThreads..MaxPoolThreads
    /\ failing \in SUBSET TaskIds
    /\ tasks = <<>>
    /\ created = FALSE
    /\ mutex = NewMutex
    /\ resolved = [p \in TaskIds \cup {Main} |-> FALSE]
    /\ pc = [p \in TaskIds \cup {Main} |-> IF p = Main THEN "init" ELSE "idle"]
    /\ semDone = NewSemaphore(0)
    /\ remainingTasks = 0
    /\ totalTasks = 0
    /\ completed = FALSE
    /\ nCalls = 0
    /\ callIndex = [i \in TaskIds |-> 0]
    /\ signals = 0
    /\ signalCall = 0
    /\ firstWaiter = 0
    /\ waitAt = -1
    /\ workerInbox = [w \in WorkerIds |-> <<>>]
    /\ toMain = [w \in WorkerIds |-> <<>>]
    /\ workerState = [w \in WorkerIds |-> "none"]
    /\ listening = [i \in TaskIds |-> FALSE]
    /\ taskDone = [i \in TaskIds |-> FALSE]
    /\ taskPromise = [i \in TaskIds |-> "pending"]
    /\ attempts = [i \in TaskIds |-> 0]
    /\ errors = {}
    /\ joined = 0
    /\ writes = {}
    /\ inputWrites = {}
    /\ sentTo = [i \in TaskIds |-> <<>>]
    /\ taskCalls = [i \in TaskIds |-> 0]
    /\ errorsSeen = {}
    /\ ParkedExcept({"tasks", "coord", "pool"})

\* processWithThreadPool up to await Promise.all(taskPromises): createTasks,
\* new CompletionCoordinator(tasks.length), the workers, one listener and one
\* PROCESS_TASK message per task
PoolSetup(h) ==
    /\ LET ts == createTasks(h, nthreads) IN
        /\ tasks' = ts
        /\ remainingTasks' = Len(ts)
        /\ totalTasks' = Len(ts)
        /\ listening' = [i \in TaskIds |-> i < Len(ts)]
        /\ workerInbox' = [w \in WorkerIds |->
                              IF w < nthreads THEN TasksOf(w, 0, Len(ts), nthreads)
                              ELSE <<>>]
        /\ sentTo' = [i \in TaskIds |->
                         IF i < Len(ts) THEN <<WorkerOf(i, nthreads)>> ELSE <<>>]
    /\ created' = TRUE
    /\ semDone' = NewSemaphore(0)
    /\ completed' = FALSE
    /\ mutex' = NewMutex
    /\ workerState' = [w \in WorkerIds |-> IF w < nthreads THEN "running" ELSE "none"]
    /\ pc' = [pc EXCEPT ![Main] = "awaitAll"]
    /\ UNCHANGED <<resolved, nthreads, coordHistory, toMain,
                   taskDone, taskPromise, failing, attempts, errors, joined,
                   writes, inputWrites, taskCalls, errorsSeen, exceptPool>>

\* processWithThreadPool(inputPgm, ...) called on a raster of the given
\* height and width
StartPool ==
    /\ pc[Main] = "init"
    /\ PoolSetup(height)
    /\ UNCHANGED <<height, width>>

\* A block filter that also writes the row after its block.
applyFilterOneRowMore(w, rowStart, rowEnd, size) ==
    [out |-> {i \in (rowStart * w)..((rowEnd + 1) * w - 1) : i < size},
     inp |-> {}]

\* applyNegativeBlock / applySliceBlock, as the byte indices they write:
\* outputData[i] for startPixel <= i < endPixel (a typed array of length
\* size ignores a write past its end), and no index of inputData
applyFilter(w, rowStart, rowEnd, size) ==
    [out |-> {i \in (rowStart * w)..(rowEnd * w - 1) : i < size},
     inp |-> {}]

\* worker thread, on PROCESS_TASK: applyFilter, then TASK_COMPLETED with the
\* message's taskId; or, the transform having raised, TASK_ERROR
WorkerProcessTask(w) ==
    /\ workerState[w] = "running"
    /\ workerInbox[w] # <<>>
    /\ Head(workerInbox[w]).type = "PROCESS_TASK"
    /\ LET i == Head(workerInbox[w]).taskId IN
        /\ attempts' = [attempts EXCEPT ![i] = @ + 1]
        /\ IF i \in failing
           THEN /\ toMain' = [toMain EXCEPT ![w] = Append(@, TaskErrorMsg(i))]
                /\ errors' = errors \cup {i}
                /\ UNCHANGED <<writes, inputWrites>>
           ELSE LET t == tasks[i + 1]
                    f == applyFilter(width, t.row_start, t.row_end, width * height)
                IN /\ writes' = writes \cup
                        {[worker |-> w, task |-> i, index |-> k] : k \in f.out}
                   /\ inputWrites' = inputWrites \cup
                        {[worker |-> w, index |-> k] : k \in f.inp}
                   /\ toMain' = [toMain EXCEPT ![w] = Append(@, TaskCompletedMsg(i))]
                   /\ errors' = errors
    /\ workerInbox' = [workerInbox EXCEPT ![w] = Tail(@)]
    /\ UNCHANGED <<syncVars, coordVars, coordHistory, taskVars, workerState,
                   listening, taskDone, taskPromise, failing, joined, sentTo,
                   taskCalls, errorsSeen, exceptPool>>

\* worker thread, on TERMINATE: process.exit(0) ends the thread
WorkerExit(w) ==
    /\ workerState[w] = "running"
    /\ workerInbox[w] # <<>>
    /\ Head(workerInbox[w]).type = "TERMINATE"
    /\ workerState' = [workerState EXCEPT ![w] = "exited"]
    /\ workerInbox' = [workerInbox EXCEPT ![w] = Tail(@)]
    /\ UNCHANGED <<syncVars, coordVars, coordHistory, taskVars, toMain,
                   listening, taskDone, taskPromise, failing, attempts, errors,
                   joined, poolHistory, exceptPool>>

\* the listeners registered on worker w that take message m as theirs
Matching(w, m, type) ==
    {i \in TaskIds : listening[i] /\ WorkerOf(i, nthreads) = w
                      /\ m.type = type /\ m.taskId = i}

\* a message of worker w is dispatched to the listeners registered on it.
\* TASK_COMPLETED with the listener's task id: coordinator.taskCompleted()
\* is called and runs to await this.lock().  TASK_ERROR with the listener's
\* task id: the listener is removed and the task's promise rejected.
DeliverToMain(w) ==
    /\ pc[Main] \notin {"receiving", "init", "failed", "poolReturned", "exit0", "exit1"}
    /\ toMain[w] # <<>>
    /\ toMain' = [toMain EXCEPT ![w] = Tail(@)]
    /\ LET m == Head(toMain[w])
           done == Matching(w, m, "TASK_COMPLETED")
           failed == Matching(w, m, "TASK_ERROR")
       IN
        /\ IF done # {}
           THEN LET i == CHOOSE i \in done : TRUE
                    r == MutexLock(mutex, i)
                IN /\ mutex' = r.mutex
                   /\ resolved' = Resolve(resolved, r.resume)
                   /\ pc' = [pc EXCEPT ![i] = "awaitLock"]
                   /\ nCalls' = nCalls + 1
                   /\ callIndex' = [callIndex EXCEPT ![i] = nCalls + 1]
                   /\ taskCalls' = [taskCalls EXCEPT ![i] = @ + 1]
           ELSE UNCHANGED <<mutex, resolved, pc, nCalls, callIndex, taskCalls>>
        /\ errorsSeen' = IF m.type = "TASK_ERROR" THEN errorsSeen \cup {w}
                         ELSE errorsSeen
        /\ listening' = [i \in TaskIds |-> listening[i] /\ i \notin failed]
        /\ taskPromise' = [i \in TaskIds |->
                              IF i \in failed THEN "rejected" ELSE taskPromise[i]]
    /\ UNCHANGED <<coordVars, signals, signalCall, firstWaiter, waitAt, taskVars,
                   workerInbox, workerState, taskDone, failing, attempts, errors,
                   joined, writes, inputWrites, sentTo, exceptPool>>

\* the listener after await coordinator.taskCompleted(): taskCompleted =
\* true, worker.off('message', messageListener), resolve()
ListenerResolve(i) ==
    /\ pc[i] = "done"
    /\ pc' = [pc EXCEPT ![i] = "finished"]
    /\ taskDone' = [taskDone EXCEPT ![i] = TRUE]
    /\ listening' = [listening EXCEPT ![i] = FALSE]
    /\ taskPromise' = [taskPromise EXCEPT ![i] = "resolved"]
    /\ UNCHANGED <<mutex, resolved, coordVars, coordHistory, taskVars,
                   workerInbox, toMain, workerState, failing, attempts, errors,
                   joined, poolHistory, exceptPool>>

\* after await Promise.all(taskPromises): a rejection is thrown to main(),
\* which calls process.exit(1); otherwise await coordinator.waitForCompletion()
MainAfterAll ==
    /\ pc[Main] = "awaitAll"
    /\ IF \E i \in TaskIds : taskPromise[i] = "rejected"
       THEN /\ pc' = [pc EXCEPT ![Main] = "failed"]
            /\ workerState' = [w \in WorkerIds |->
                                 IF workerState[w] = "running" THEN "terminated"
                                 ELSE workerState[w]]
            /\ UNCHANGED <<semDone, resolved, firstWaiter, waitAt>>
       ELSE /\ \A i \in TaskIds : i < Len(tasks) => taskPromise[i] = "resolved"
            /\ LET r == SemWait(semDone, Main) IN
                /\ semDone' = r.sem
                /\ resolved' = Resolve(resolved, r.resume)
            /\ pc' = [pc EXCEPT ![Main] = "awaitDone"]
            /\ firstWaiter' = Main
            /\ waitAt' = totalTasks - remainingTasks
            /\ UNCHANGED workerState
    /\ UNCHANGED <<mutex, remainingTasks, completed, totalTasks, nCalls,
                   callIndex, signals, signalCall, taskVars, workerInbox, toMain,
                   listening, taskDone, taskPromise, failing, attempts, errors,
                   joined, poolHistory, exceptPool>>

\* after waitForCompletion() returned: TERMINATE is posted to every worker,
\* then await of the 100 ms timer
MainPostTerminate ==
    /\ pc[Main] = "returned"
    /\ workerInbox' = [w \in WorkerIds |->
                          IF w < nthreads THEN Append(workerInbox[w], TerminateMsg)
                          ELSE workerInbox[w]]
    /\ pc' = [pc EXCEPT ![Main] = "sleep"]
    /\ UNCHANGED <<mutex, resolved, coordVars, coordHistory, taskVars, toMain,
                   workerState, listening, taskDone, taskPromise, failing,
                   attempts, errors, joined, poolHistory, exceptPool>>

\* for (const worker of workers) await worker.terminate(): one worker
MainJoin ==
    /\ pc[Main] = "sleep"
    /\ joined < nthreads
    /\ workerState' = [workerState EXCEPT ![joined] =
                          IF @ = "running" THEN "terminated" ELSE @]
    /\ joined' = joined + 1
    /\ UNCHANGED <<syncVars, coordVars, coordHistory, taskVars, workerInbox,
                   toMain, listening, taskDone, taskPromise, failing, attempts,
                   errors, poolHistory, exceptPool>>

\* outputPgm.data = Buffer.from(outputBuffer); return outputPgm
MainReturn ==
    /\ pc[Main] = "sleep"
    /\ joined = nthreads
    /\ pc' = [pc EXCEPT ![Main] = "poolReturned"]
    /\ UNCHANGED <<mutex, resolved, coordVars, coordHistory, taskVars, poolVars,
                   exceptPool>>

\* the steps of the pool once it has been set up
PoolSteps ==
    \/ \E w \in WorkerIds : WorkerProcessTask(w)
    \/ \E w \in WorkerIds : WorkerExit(w)
    \/ \E w \in WorkerIds : DeliverToMain(w)
    \/ \E i \in TaskIds : TaskCompletedRun(i)
    \/ \E i \in TaskIds : TaskCompletedUnlock(i)
    \/ \E i \in TaskIds : TaskCompletedReturn(i)
    \/ \E i \in TaskIds : ListenerResolve(i)
    \/ MainAfterAll
    \/ WaitForCompletionReturn(Main)
    \/ MainPostTerminate
    \/ MainJoin
    \/ MainReturn

NextPool == StartPool \/ PoolSteps

SpecPool == InitPool /\ [][NextPool]_vars

\* the TERMINATE messages posted to worker w so far: those it has handled
\* (it exits on the first) and those still in its inbox
TerminatesSent(w) ==
    Cardinality({k \in 1..Len(workerInbox[w]) : workerInbox[w][k].type = "TERMINATE"})
        + (IF workerState[w] = "exited" THEN 1 ELSE 0)

\* the tasks posted to worker w
TasksGivenTo(w) == {i \in TaskIds : i < Len(tasks) /\ WorkerOf(i, nthreads) = w}

\* C16: no TERMINATE is posted before the coordinator has signaled that all
\* tasks completed; a worker is posted at most one TERMINATE and handles it
\* only after every PROCESS_TASK posted to it; and when
\* processWithThreadPool returns every worker has handled its TERMINATE.
C16_TerminateOnceAfterWork ==
    /\ \A w \in WorkerIds :
          /\ TerminatesSent(w) <= 1
          /\ TerminatesSent(w) = 1 =>
                (completed /\ signals = 1 /\ remainingTasks <= 0)
          /\ workerState[w] = "exited" =>
                \A i \in TasksGivenTo(w) : attempts[i] = 1
    /\ pc[Main] = "poolReturned" =>
          \A w \in WorkerIds : w < nthreads => workerState[w] = "exited"

\* C17: once a worker's failure report has reached processWithThreadPool
\* its wait is aborted (a task promise is rejected, so Promise.all rejects),
\* and when it has failed no worker thread is left running.
C17_FailureAbortsWait ==
    /\ errorsSeen # {} => \E i \in TaskIds : taskPromise[i] = "rejected"
    /\ pc[Main] = "failed" => \A w \in WorkerIds : workerState[w] # "running"

\* the PROCESS_TASK messages for task i waiting in some worker's inbox
Pending(i) ==
    {<<w, k>> \in WorkerIds \X (1..MaxPoolThreads) :
        /\ k <= Len(workerInbox[w])
        /\ workerInbox[w][k] = ProcessTaskMsg(i)}

\* C19: every task createTasks returned is posted to exactly one worker, is
\* processed at most once (it is either still in that worker's inbox or has
\* been processed once), causes at most one taskCompleted() call, made only
\* after it was processed, and when processWithThreadPool returns it has
\* been processed once and has caused one call.
C19_TaskExactlyOnce ==
    created =>
        \A i \in TaskIds :
            IF i < Len(tasks)
            THEN /\ sentTo[i] = <<WorkerOf(i, nthreads)>>
                 /\ attempts[i] <= 1
                 /\ workerState[WorkerOf(i, nthreads)] = "running" =>
                        Cardinality(Pending(i)) + attempts[i] = 1
                 /\ taskCalls[i] <= 1
                 /\ taskCalls[i] = 1 => attempts[i] = 1
                 /\ pc[Main] = "poolReturned" =>
                        (attempts[i] = 1 /\ taskCalls[i] = 1)
            ELSE sentTo[i] = <<>> /\ attempts[i] = 0 /\ taskCalls[i] = 0

\* three tasks went to three workers, each was processed once and reported
\* once, and processWithThreadPool has returned
C19_Witness ==
    /\ pc[Main] = "poolReturned"
    /\ Len(tasks) = 3
    /\ nCalls = 3
    /\ \A i \in 0..2 : attempts[i] = 1 /\ taskCalls[i] = 1

\* the output byte indices of task i: rows row_start to row_end - 1
TaskBytes(i) ==
    (tasks[i + 1].row_start * width)..(tasks[i + 1].row_end * width - 1)

\* C20: a worker writes, for task i, only output bytes of the rows of task
\* i; no output byte is written by two workers; the byte ranges of two
\* tasks are disjoint; and no worker writes a byte of the input buffer.
C20_DisjointWrites ==
    /\ \A a \in writes :
          /\ a.worker = WorkerOf(a.task, nthreads)
          /\ a.index \in TaskBytes(a.task)
    /\ \A a, b \in writes : a.index = b.index => a.worker = b.worker
    /\ \A i, j \in TaskIds :
          (i < Len(tasks) /\ j < Len(tasks) /\ i # j) =>
              TaskBytes(i) \cap TaskBytes(j) = {}
    /\ inputWrites = {}

\* a raster of 3 rows of 2 bytes, whose two tasks were processed by two
\* workers: all six output bytes are written
C20_Witness ==
    /\ height = 3 /\ width = 2 /\ nthreads = 2
    /\ {a.index : a \in writes} = 0..5
    /\ {a.worker : a \in writes} = {0, 1}

\* The worker threads and the event loop of the main thread keep running:
\* a message that was posted is handled and a continuation that is ready runs.
FairSpecPool == SpecPool /\ WF_vars(PoolSteps)

\* the output bytes some worker has written
Written == {a.index : a \in writes}

\* C33: for a raster of height >= 1 and width >= 1 and a thread count in
\* range, when no transform fails, a call of processWithThreadPool
\* eventually returns;
\* and when it copies the output buffer and returns, every task has completed
\* and every byte of every row in [0, H) has been written by a worker.
C33_PoolReturnsComplete ==
    /\ [](pc[Main] = "poolReturned" =>
             /\ \A i \in TaskIds : i < Len(tasks) => taskDone[i]
             /\ remainingTasks = 0
             /\ Written = 0..(height * width - 1))
    /\ (created /\ failing = {} /\ height >= 1 /\ width >= 1)
           ~> (pc[Main] = "poolReturned")

\* a raster of the largest height and width went through three workers and
\* processWithThreadPool has returned with every byte written
C33_Witness ==
    /\ pc[Main] = "poolReturned"
    /\ height = MaxPoolHeight /\ width = MaxPoolWidth /\ nthreads = MaxPoolThreads
    /\ failing = {}
    /\ Written = 0..(height * width - 1)

\* C39: for a raster of height 0 createTasks returns no task, the
\* coordinator is created with remaining = 0, taskCompleted() is never
\* called and nothing is signalled, and processWithThreadPool does not
\* return: once called it reaches waitForCompletion() and stays blocked in it.
C39_EmptyRasterBlocks ==
    /\ []((created /\ height = 0) =>
             /\ tasks = <<>>
             /\ totalTasks = 0 /\ remainingTasks = 0
             /\ nCalls = 0 /\ signals = 0
             /\ pc[Main] \in {"awaitAll", "awaitDone"}
             /\ ~resolved[Main])
    /\ (created /\ height = 0) ~> [](pc[Main] = "awaitDone" /\ ~resolved[Main])

\* a raster of height 0 and positive width: the workers were started, no
\* task was posted, and the main thread is blocked on semDone
C39_Witness ==
    /\ height = 0 /\ width = MaxPoolWidth /\ nthreads = MaxPoolThreads
    /\ created
    /\ pc[Main] = "awaitDone"
    /\ semDone.waitQueue = <<Main>>
    /\ \A w \in WorkerIds : workerState[w] = "running" /\ workerInbox[w] = <<>>

\* ------------------------------------------------ receiveImageData, main
\* pixel k of the raster that is sent: 10, 20, 30, ...
Pixel(k) == (10 * k) % 256

Max(a, b) == IF a >= b THEN a ELSE b

\* Buffer.slice(start, end) on a buffer of n bytes: a negative index counts
\* from the end, both are clamped to 0..n, and end <= start gives no bytes
SliceIndex(i, n) == IF i < 0 THEN Max(n + i, 0) ELSE Min(i, n)
BufferSlice(buf, start, end) ==
    LET from == SliceIndex(start, Len(buf))
        to == SliceIndex(end, Len(buf))
    IN IF to <= from THEN <<>> ELSE SubSeq(buf, from + 1, to)

\* Buffer.concat(chunks)
RECURSIVE BufferConcat(_)
BufferConcat(cs) == IF cs = <<>> THEN <<>> ELSE Head(cs) \o BufferConcat(Tail(cs))

\* new PGM(width, height, maxValue, data) with a Buffer as data
PGM(w, h, maxv, data) == [w |-> w, h |-> h, maxv |-> maxv, data |-> data]

\* A check that asks for the header only when no byte at all arrived.
ParseImageNoHeaderCheck(fullBuffer) ==
    IF Len(fullBuffer) < 1
    THEN [ok |-> FALSE, pgm |-> <<>>]
    ELSE LET padded == fullBuffer \o [k \in 1..HeaderSize |-> 0]
             header == fromBuffer(BufferSlice(padded, 0, HeaderSize))
             expectedDataSize == header.w * header.h
             imageData == BufferSlice(fullBuffer, HeaderSize,
                                      HeaderSize + expectedDataSize)
         IN IF Len(imageData) # expectedDataSize
            THEN [ok |-> FALSE, pgm |-> <<>>]
            ELSE [ok |-> TRUE,
                  pgm |-> PGM(header.w, header.h, header.maxv, imageData)]

\* A check that accepts a payload shorter than the header declares.
ParseImageNoPayloadCheck(fullBuffer) ==
    IF Len(fullBuffer) < HeaderSize
    THEN [ok |-> FALSE, pgm |-> <<>>]
    ELSE LET header == fromBuffer(BufferSlice(fullBuffer, 0, HeaderSize))
             expectedDataSize == header.w * header.h
             imageData == BufferSlice(fullBuffer, HeaderSize,
                                      HeaderSize + expectedDataSize)
         IN [ok |-> TRUE, pgm |-> PGM(header.w, header.h, header.maxv, imageData)]

\* the 'end' handler of receiveImageData: the try block, whose throw
\* rejects the promise and whose last statement resolves it with the PGM
ParseImage(fullBuffer) ==
    IF Len(fullBuffer) < HeaderSize
    THEN [ok |-> FALSE, pgm |-> <<>>]
    ELSE LET header == fromBuffer(BufferSlice(fullBuffer, 0, HeaderSize))
             expectedDataSize == header.w * header.h
             imageData == BufferSlice(fullBuffer, HeaderSize,
                                      HeaderSize + expectedDataSize)
         IN IF Len(imageData) # expectedDataSize
            THEN [ok |-> FALSE, pgm |-> <<>>]
            ELSE [ok |-> TRUE,
                  pgm |-> PGM(header.w, header.h, header.maxv, imageData)]

\* the Header the sender builds for a raster of w by h
SentHeader(w, h) == [NewHeader EXCEPT !.w = w, !.h = h]

\* main() of the consumer, after parseArgs, at await receiveImageData(): the
\* channel will carry the first n bytes of a header declaring w by h
\* followed by pixels, then end-of-stream
InitConsumer ==
    /\ \E w \in (-1)..MaxDim, h \in (-1)..MaxDim, n \in 0..(HeaderSize + MaxPayload) :
          wire = SubSeq(toBuffer(SentHeader(w, h)) \o [k \in 1..MaxPayload |-> Pixel(k)],
                        1, n)
    /\ delivered = 0
    /\ chunks = <<>>
    /\ ended = FALSE
    /\ rx = "pending"
    /\ pgm = <<>>
    /\ height = 0
    /\ width = 0
    /\ nthreads \in MinThreads..MaxPoolThreads
    /\ failing \in SUBSET TaskIds
    /\ tasks = <<>>
    /\ created = FALSE
    /\ mutex = NewMutex
    /\ resolved = [p \in TaskIds \cup {Main} |-> FALSE]
    /\ pc = [p \in TaskIds \cup {Main} |-> IF p = Main THEN "receiving" ELSE "idle"]
    /\ semDone = NewSemaphore(0)
    /\ remainingTasks = 0
    /\ totalTasks = 0
    /\ completed = FALSE
    /\ nCalls = 0
    /\ callIndex = [i \in TaskIds |-> 0]
    /\ signals = 0
    /\ signalCall = 0
    /\ firstWaiter = 0
    /\ waitAt = -1
    /\ workerInbox = [w \in WorkerIds |-> <<>>]
    /\ toMain = [w \in WorkerIds |-> <<>>]
    /\ workerState = [w \in WorkerIds |-> "none"]
    /\ listening = [i \in TaskIds |-> FALSE]
    /\ taskDone = [i \in TaskIds |-> FALSE]
    /\ taskPromise = [i \in TaskIds |-> "pending"]
    /\ attempts = [i \in TaskIds |-> 0]
    /\ errors = {}
    /\ joined = 0
    /\ writes = {}
    /\ inputWrites = {}
    /\ sentTo = [i \in TaskIds |-> <<>>]
    /\ taskCalls = [i \in TaskIds |-> 0]
    /\ errorsSeen = {}
    /\ ParkedExcept({"tasks", "coord", "pool", "rx"})

\* readStream.on('data'): chunks.push(chunk); a chunk holds ChunkBytes
\* bytes or all that remain
ReceiveData ==
    /\ rx = "pending"
    /\ delivered < Len(wire)
    /\ \E n \in {Min(ChunkBytes, Len(wire) - delivered), Len(wire) - delivered} :
        /\ chunks' = Append(chunks, SubSeq(wire, delivered + 1, delivered + n))
        /\ delivered' = delivered + n
    /\ UNCHANGED <<wire, ended, rx, pgm, syncVars, coordVars, coordHistory, taskVars,
                   poolVars, exceptRx>>

\* readStream.on('end')
ReceiveEnd ==
    /\ rx = "pending"
    /\ delivered = Len(wire)
    /\ LET r == ParseImage(BufferConcat(chunks)) IN
        /\ rx' = IF r.ok THEN "resolved" ELSE "rejected"
        /\ pgm' = r.pgm
    /\ ended' = TRUE
    /\ UNCHANGED <<wire, delivered, chunks, syncVars, coordVars, coordHistory,
                   taskVars, poolVars, exceptRx>>

\* readStream.on('error'): the channel cannot be opened or read
ReceiveError ==
    /\ rx = "pending"
    /\ rx' = "rejected"
    /\ UNCHANGED <<wire, delivered, chunks, ended, pgm, syncVars, coordVars,
                   coordHistory, taskVars, poolVars, exceptRx>>

\* main() after await receiveImageData(fifoPath): a rejection goes to the
\* catch, process.exit(1); otherwise processWithThreadPool(inputPgm, ...)
\* is called and runs to its first await
MainAfterReceive ==
    /\ pc[Main] = "receiving"
    /\ rx # "pending"
    /\ IF rx = "rejected"
       THEN /\ pc' = [pc EXCEPT ![Main] = "exit1"]
            /\ UNCHANGED <<mutex, resolved, coordVars, coordHistory, taskVars,
                           poolVars, exceptPool>>
       ELSE /\ PoolSetup(pgm.h)
            /\ height' = pgm.h
            /\ width' = pgm.w

\* main() after await processWithThreadPool(): writePGM(outputPath, outputPgm)
MainWritePGM ==
    /\ pc[Main] = "poolReturned"
    /\ pc' = [pc EXCEPT ![Main] = "exit0"]
    /\ UNCHANGED <<mutex, resolved, coordVars, coordHistory, taskVars, poolVars,
                   exceptPool>>

NextConsumer ==
    \/ ReceiveData
    \/ ReceiveEnd
    \/ ReceiveError
    \/ MainAfterReceive
    \/ PoolSteps
    \/ MainWritePGM

SpecConsumer == InitConsumer /\ [][NextConsumer]_vars

\* the bytes receiveImageData has buffered
Received == BufferConcat(chunks)

\* the header fields at the front of the buffered bytes
ReceivedHeader == fromBuffer(SubSeq(Received, 1, HeaderSize))

\* C11: once the stream has ended with at least the 24 header bytes, a number
\* of bytes after the header other than width*height (fewer or more) makes
\* receiveImageData fail, and no raster is constructed.
C11_PayloadExact ==
    (ended /\ Len(Received) >= HeaderSize
       /\ Len(Received) - HeaderSize # ReceivedHeader.w * ReceivedHeader.h)
    => (rx = "rejected" /\ pgm = <<>>)

\* C12: once the stream has ended with fewer than 24 bytes received,
\* receiveImageData has failed and no raster is constructed.
C12_ShortHeader ==
    (ended /\ Len(Received) < HeaderSize) => (rx = "rejected" /\ pgm = <<>>)

\* 23 bytes arrived in several chunks, then end-of-stream; the promise is
\* rejected and main() has exited with code 1
C12_Witness ==
    /\ ended
    /\ Len(chunks) >= 2
    /\ Len(Received) = HeaderSize - 1
    /\ rx = "rejected"
    /\ pc[Main] = "exit1"

\* a worker thread exists or a task has been created or posted
PoolStarted ==
    \/ created
    \/ tasks # <<>>
    \/ \E w \in WorkerIds : workerState[w] # "none" \/ workerInbox[w] # <<>>

\* C18: the consumer starts no worker thread and creates no task before the
\* stream has ended, every byte of it is buffered and the buffer has passed
\* the checks of receiveImageData (header complete, declared payload
\* present); after a protocol error no worker or task ever exists and the
\* consumer is exiting with code 1.
C18_ReceiveBeforeSchedule ==
    /\ PoolStarted =>
          /\ ended
          /\ Received = wire
          /\ rx = "resolved"
          /\ Len(wire) >= HeaderSize + pgm.w * pgm.h
          /\ pgm.data = SubSeq(wire, HeaderSize + 1, HeaderSize + pgm.w * pgm.h)
    /\ rx = "rejected" =>
          /\ ~PoolStarted
          /\ pc[Main] \in {"receiving", "exit1"}
    /\ pc[Main] = "exit1" => rx = "rejected"

\* a 2 by 2 raster arrived in three chunks and its tasks are being
\* processed by worker threads
C18_Witness ==
    /\ Len(chunks) = 3
    /\ pgm # <<>>
    /\ pgm.w = 2 /\ pgm.h = 2
    /\ Len(tasks) = 2
    /\ \E i \in TaskIds : attempts[i] = 1

\* C6: when a worker thread has posted TASK_ERROR for a task,
\* processWithThreadPool does not stay waiting: once nothing more can
\* happen it has failed with the error.
C6_ErrorSurfaces ==
    (errors # {} /\ ~ENABLED NextPool) => pc[Main] = "failed"

\* C9: the (first) call of waitForCompletion() on a coordinator with N >= 1
\* tasks returns once N taskCompleted() calls have been made, whether it was
\* made before, between or after them.
C9_WaitReturns ==
    \A w \in Waiters : (firstWaiter = w) ~> (pc[w] = "returned")

\* waitForCompletion() was called between the first and the last of the
\* taskCompleted() calls, and has returned
C9_Witness ==
    /\ totalTasks >= 2
    /\ waitAt \in 1..(totalTasks - 1)
    /\ firstWaiter # 0
    /\ pc[firstWaiter] = "returned"

\* C10: once the coordinator is signaled no caller is blocked in
\* waitForCompletion(): every caller blocked at the moment of the signal is
\* woken, and a call blocks only while completed is false.
C10_BlockedOnlyWhileUnsignaled ==
    \A w \in Waiters : (pc[w] = "awaitDone" /\ ~resolved[w]) => ~completed

\* ------------------------------------- processar.js, sender.js, worker.js
\* One run of the orchestrator (ProcessadorPGMFifo.executar) with its two
\* child processes.  The three are operating-system processes: a step of
\* one can fall between any two steps of another.  What the children do
\* with the image is left out; what they do with the channel path is kept.

\* the values CONFIG.threads takes here: below, inside and above the range
\* the worker process accepts
ThreadArgs == {MinThreads - 1, MinThreads, MaxThreads, MaxThreads + 1}

\* the values CONFIG.filtro takes here
FilterArgs == {"negativo", "slice", "blur"}

\* a child process has exited
Exited == {"exit0", "exit1"}

\* limparFifo(): unlinks whatever exists at the path
limparFifo(p) == IF p # "absent" THEN "absent" ELSE p

\* ensureFifo(fifoPath): a FIFO is kept, a missing path gets one from
\* mkfifo, anything else ends the process with exit(1)
ensureFifo(p) ==
    CASE p = "fifo" -> [path |-> "fifo", made |-> FALSE, ok |-> TRUE]
      [] p = "absent" -> [path |-> "fifo", made |-> TRUE, ok |-> TRUE]
      [] OTHER -> [path |-> p, made |-> FALSE, ok |-> FALSE]

\* gerarCaminhoFifo() has chosen a fresh path; nothing has been created
InitOrch ==
    /\ fifoPath = "absent"
    /\ threads \in ThreadArgs
    /\ filtro \in FilterArgs
    /\ orchPc = "start"
    /\ senderPc = "none" /\ workerPc = "none"
    /\ senderPromise = "pending" /\ workerPromise = "pending"
    /\ outputExists \in BOOLEAN
    /\ fifoCreated = FALSE
    /\ readerSaw = "none"
    /\ mutex = NewMutex
    /\ resolved = <<>>
    /\ pc = <<>>
    /\ ParkedExcept({"orch"})

\* executar(): verificarPreRequisitos() returned false
OrchPrereqFail ==
    /\ orchPc = "start"
    /\ orchPc' = "returned"
    /\ UNCHANGED <<fifoPath, threads, filtro, senderPc, workerPc, senderPromise,
                   workerPromise, outputExists, orchHistory, exceptOrch>>

\* processarComDoisProcessos(): both children are spawned in one segment,
\* then the orchestrator awaits Promise.all of their promises
OrchSpawn ==
    /\ orchPc = "start"
    /\ orchPc' = "awaitBoth"
    /\ senderPc' = "main"
    /\ workerPc' = "main"
    /\ UNCHANGED <<fifoPath, threads, filtro, senderPromise, workerPromise,
                   outputExists, orchHistory, exceptOrch>>

\* sender main(): parseArgs, ensureFifo, readPGM
SenderEnsureFifo ==
    /\ senderPc = "main"
    /\ LET r == ensureFifo(fifoPath)
       IN  /\ fifoPath' = r.path
           /\ fifoCreated' = (fifoCreated \/ r.made)
           /\ senderPc' = IF r.ok THEN "ensured" ELSE "exit1"
    /\ UNCHANGED <<threads, filtro, orchPc, workerPc, senderPromise,
                   workerPromise, outputExists, readerSaw, exceptOrch>>

\* sendImageData: fs.createWriteStream(fifoPath).  Opening a FIFO for
\* writing waits for a reader; any other path is created or truncated as a
\* regular file and opens at once.
SenderOpen ==
    /\ senderPc = "ensured"
    /\ IF fifoPath = "fifo"
       THEN senderPc' = "opening" /\ UNCHANGED fifoPath
       ELSE senderPc' = "writing" /\ fifoPath' = "file"
    /\ UNCHANGED <<threads, filtro, orchPc, workerPc, senderPromise,
                   workerPromise, outputExists, orchHistory, exceptOrch>>

\* both ends of the FIFO are being opened: both opens return
FifoOpened ==
    /\ senderPc = "opening"
    /\ workerPc = "opening"
    /\ senderPc' = "writing"
    /\ workerPc' = "reading"
    /\ UNCHANGED <<fifoPath, threads, filtro, orchPc, senderPromise,
                   workerPromise, outputExists, orchHistory, exceptOrch>>

\* the 'open' handler writes header and pixels and ends the stream;
\* 'finish' resolves, main() returns and the process exits with code 0
SenderWrite ==
    /\ senderPc = "writing"
    /\ senderPc' = "exit0"
    /\ UNCHANGED <<fifoPath, threads, filtro, orchPc, workerPc, senderPromise,
                   workerPromise, outputExists, orchHistory, exceptOrch>>

\* worker parseArgs(): an unknown mode or a thread count outside
\* MinThreads..MaxThreads ends the process with exit(1)
WorkerParseArgs ==
    /\ workerPc = "main"
    /\ workerPc' = IF /\ filtro \in {"negativo", "slice"}
                      /\ threads >= MinThreads
                      /\ threads <= MaxThreads
                   THEN "parsed" ELSE "exit1"
    /\ UNCHANGED <<fifoPath, threads, filtro, orchPc, senderPc, senderPromise,
                   workerPromise, outputExists, orchHistory, exceptOrch>>

\* receiveImageData: fs.createReadStream(fifoPath).  A missing path gives
\* an 'error' event (ENOENT), the promise is rejected and main() exits with
\* code 1; opening a FIFO for reading waits for a writer; a regular file
\* opens at once and what it holds decides whether the read succeeds.
WorkerOpen ==
    /\ workerPc = "parsed"
    /\ readerSaw' = fifoPath
    /\ CASE fifoPath = "absent" -> workerPc' = "exit1"
         [] fifoPath = "fifo" -> workerPc' = "opening"
         [] OTHER -> workerPc' \in {"processing", "exit1"}
    /\ UNCHANGED <<fifoPath, threads, filtro, orchPc, senderPc, senderPromise,
                   workerPromise, outputExists, fifoCreated, exceptOrch>>

\* the writer has closed its end: 'end' is delivered and the image received
WorkerReceive ==
    /\ workerPc = "reading"
    /\ senderPc \in Exited
    /\ workerPc' = "processing"
    /\ UNCHANGED <<fifoPath, threads, filtro, orchPc, senderPc, senderPromise,
                   workerPromise, outputExists, orchHistory, exceptOrch>>

\* worker main(): the image is processed and writePGM writes the output
\* file, or one of them throws and main() exits with code 1
WorkerFinish ==
    /\ workerPc = "processing"
    /\ \E ok \in BOOLEAN :
          /\ workerPc' = IF ok THEN "exit0" ELSE "exit1"
          /\ outputExists' = (outputExists \/ ok)
    /\ UNCHANGED <<fifoPath, threads, filtro, orchPc, senderPc, senderPromise,
                   workerPromise, orchHistory, exceptOrch>>

\* senderProcess.on('close'): code 0 resolves, any other code rejects
SenderClose ==
    /\ orchPc = "awaitBoth"
    /\ senderPc \in Exited
    /\ senderPromise = "pending"
    /\ senderPromise' = IF senderPc = "exit0" THEN "resolved" ELSE "rejected"
    /\ UNCHANGED <<fifoPath, threads, filtro, orchPc, senderPc, workerPc,
                   workerPromise, outputExists, orchHistory, exceptOrch>>

\* workerProcess.on('close'): code 0 resolves, any other code rejects
WorkerClose ==
    /\ orchPc = "awaitBoth"
    /\ workerPc \in Exited
    /\ workerPromise = "pending"
    /\ workerPromise' = IF workerPc = "exit0" THEN "resolved" ELSE "rejected"
    /\ UNCHANGED <<fifoPath, threads, filtro, orchPc, senderPc, workerPc,
                   senderPromise, outputExists, orchHistory, exceptOrch>>

\* processarComDoisProcessos() after Promise.all settles: it rejects with
\* the first rejection, without waiting for the other child; when both
\* resolved a missing output file throws.  The finally block runs
\* limparFifo() on either way out.
OrchFinally ==
    /\ orchPc = "awaitBoth"
    /\ \/ "rejected" \in {senderPromise, workerPromise}
       \/ senderPromise = "resolved" /\ workerPromise = "resolved"
    /\ fifoPath' = limparFifo(fifoPath)
    /\ orchPc' = IF /\ senderPromise = "resolved"
                    /\ workerPromise = "resolved"
                    /\ outputExists
                 THEN "returned" ELSE "thrown"
    /\ UNCHANGED <<threads, filtro, senderPc, workerPc, senderPromise,
                   workerPromise, outputExists, orchHistory, exceptOrch>>

\* executar(): the catch block runs limparFifo() and process.exit(1)
OrchCatch ==
    /\ orchPc = "thrown"
    /\ fifoPath' = limparFifo(fifoPath)
    /\ orchPc' = "exit1"
    /\ UNCHANGED <<threads, filtro, senderPc, workerPc, senderPromise,
                   workerPromise, outputExists, orchHistory, exceptOrch>>

NextOrch ==
    \/ OrchPrereqFail
    \/ OrchSpawn
    \/ SenderEnsureFifo
    \/ SenderOpen
    \/ FifoOpened
    \/ SenderWrite
    \/ WorkerParseArgs
    \/ WorkerOpen
    \/ WorkerReceive
    \/ WorkerFinish
    \/ SenderClose
    \/ WorkerClose
    \/ OrchFinally
    \/ OrchCatch

SpecOrch == InitOrch /\ [][NextOrch]_vars

\* C14: the channel exists before either child process starts, and the
\* worker process never opens the path before the channel was created.
C14_ChannelBeforeContexts ==
    /\ (senderPc # "none" \/ workerPc # "none") => fifoCreated
    /\ readerSaw # "none" => fifoCreated

\* C15: once the orchestrator and both children of a two-process run have
\* finished, nothing is left at the channel path.
C15_ChannelRemoved ==
    ( /\ orchPc \in {"returned", "exit1"}
      /\ senderPc \in Exited
      /\ workerPc \in Exited ) => fifoPath = "absent"

\* ------------------------------------- Mutex.unlock() called by any caller
\* Callers use one Mutex; unlock() is an ordinary method and is called by
\* callers that hold the lock and by callers that do not.

InitUnlock ==
    /\ mutex = NewMutex
    /\ resolved = [p \in Callers |-> FALSE]
    /\ pc = [p \in Callers |-> "idle"]
    /\ unlockLog = <<>>
    /\ ParkedExcept({"unlock"})

\* await mutex.lock()
LockCall(p) ==
    /\ pc[p] = "idle"
    /\ LET r == MutexLock(mutex, p) IN
        /\ mutex' = r.mutex
        /\ resolved' = Resolve(resolved, r.resume)
    /\ pc' = [pc EXCEPT ![p] = "awaitLock"]
    /\ UNCHANGED <<unlockLog, exceptUnlock>>

\* the continuation of await mutex.lock()
LockReturn(p) ==
    /\ pc[p] = "awaitLock"
    /\ resolved[p]
    /\ resolved' = [resolved EXCEPT ![p] = FALSE]
    /\ pc' = [pc EXCEPT ![p] = "holding"]
    /\ UNCHANGED <<mutex, unlockLog, exceptUnlock>>

\* mutex.unlock() by a caller that is running: one that lock() returned to,
\* or one that never called lock().  A throw leaves the caller where it was.
UnlockCall(p) ==
    /\ pc[p] \in {"idle", "holding"}
    /\ LET r == MutexUnlock(mutex) IN
        /\ mutex' = r.mutex
        /\ resolved' = Resolve(resolved, r.resume)
        /\ unlockLog' = [by |-> p, holder |-> pc[p] = "holding",
                         before |-> mutex, after |-> r.mutex,
                         threw |-> r.threw, resumed |-> r.resume]
        /\ pc' = [pc EXCEPT ![p] = IF r.threw THEN @ ELSE "idle"]
    /\ UNCHANGED exceptUnlock

NextUnlock ==
    \E p \in Callers :
        \/ LockCall(p)
        \/ LockReturn(p)
        \/ UnlockCall(p)

SpecUnlock == InitUnlock /\ [][NextUnlock]_vars

\* C21: unlock() on a mutex that is not held throws and leaves the held
\* flag and the waiter queue as they were; unlock() on a held mutex does
\* not throw, whether or not the caller is the one lock() returned to.
C21_UnlockUnheldFails ==
    unlockLog # <<>> =>
        IF ~unlockLog.before.locked
        THEN /\ unlockLog.threw
             /\ unlockLog.after = unlockLog.before
             /\ unlockLog.resumed = {}
        ELSE ~unlockLog.threw

\* a caller that lock() had returned to called unlock() after another
\* caller had released the mutex: the call threw and changed nothing
C21_Witness ==
    /\ unlockLog # <<>>
    /\ unlockLog.holder
    /\ ~unlockLog.before.locked
    /\ unlockLog.threw
    /\ mutex = unlockLog.before

\* the callers queued in q
Queued(q) == {q[i] : i \in 1..Len(q)}

\* the last unlock() passed the lock to caller h and h has not resumed yet
PassedTo(h) ==
    /\ unlockLog # <<>>
    /\ unlockLog.resumed = {h}
    /\ pc[h] = "awaitLock"
    /\ resolved[h]

\* C29: unlock() of a held mutex with waiters queued keeps the mutex held,
\* takes the head waiter off the queue and resumes exactly that waiter; with
\* no waiter it leaves the mutex free and resumes nobody.  A lock() issued
\* after the hand-over and before the head waiter has resumed is queued and
\* is not granted.
C29_HandOverToHead ==
    /\ [](unlockLog # <<>> /\ unlockLog.before.locked =>
             IF unlockLog.before.waitQueue # <<>>
             THEN /\ unlockLog.after.locked
                  /\ unlockLog.resumed = {Head(unlockLog.before.waitQueue)}
                  /\ unlockLog.after.waitQueue = Tail(unlockLog.before.waitQueue)
             ELSE /\ ~unlockLog.after.locked
                  /\ unlockLog.resumed = {})
    /\ [][\A h, p \in Callers :
            (PassedTo(h) /\ pc[p] = "idle" /\ pc'[p] = "awaitLock") =>
                /\ ~resolved'[p]
                /\ mutex'.locked
                /\ mutex'.waitQueue = Append(mutex.waitQueue, p)]_vars

\* the head waiter was handed the lock and has not resumed; a caller that
\* was not queued at the hand-over has called lock() since and is queued
C29_Witness ==
    /\ mutex.locked
    /\ \E h, q \in Callers :
          /\ PassedTo(h)
          /\ h = Head(unlockLog.before.waitQueue)
          /\ q \notin Queued(unlockLog.before.waitQueue)
          /\ q \in Queued(mutex.waitQueue)
          /\ pc[q] = "awaitLock"
          /\ ~resolved[q]

\* ------------------------------------------- withLock(fn), every exit path
\* Callers call withLock(fn) again and again; a body returns a value, throws
\* before its first await, or returns a promise that rejects.

\* what a body does
Outcomes == {"returns", "throws", "rejects"}

\* A withLock that releases only after a body that returned.
withLockExitNoFinally(m, o) ==
    IF o = "returns"
    THEN LET r == MutexUnlock(m) IN
         [mutex |-> r.mutex, resume |-> r.resume, released |-> 1,
          result |-> IF r.threw THEN "unlockError" ELSE "value"]
    ELSE [mutex |-> m, resume |-> {}, released |-> 0, result |-> "error"]

\* withLock(fn) once fn() has settled with outcome o: finally runs
\* this.unlock(), then the value is returned or the failure rethrown; an
\* unlock() that throws replaces either.
withLockExit(m, o) ==
    LET r == MutexUnlock(m) IN
    [mutex |-> r.mutex, resume |-> r.resume, released |-> 1,
     result |-> IF r.threw THEN "unlockError"
                ELSE IF o = "returns" THEN "value" ELSE "error"]

InitWithLock ==
    /\ mutex = NewMutex
    /\ resolved = [p \in Callers |-> FALSE]
    /\ pc = [p \in Callers |-> "idle"]
    /\ outcome = [p \in Callers |-> "returns"]
    /\ result = [p \in Callers |-> "none"]
    /\ releases = [p \in Callers |-> 0]
    /\ ParkedExcept({"withLock"})

\* withLock(fn), first segment: await this.lock()
WithLockCall(p) ==
    /\ pc[p] \in {"idle", "settled"}
    /\ \E o \in Outcomes : outcome' = [outcome EXCEPT ![p] = o]
    /\ result' = [result EXCEPT ![p] = "none"]
    /\ releases' = [releases EXCEPT ![p] = 0]
    /\ LET r == MutexLock(mutex, p) IN
        /\ mutex' = r.mutex
        /\ resolved' = Resolve(resolved, r.resume)
    /\ pc' = [pc EXCEPT ![p] = "awaitLock"]
    /\ UNCHANGED exceptWithLock

\* withLock(fn), after lock() resolved: fn() is called inside try.  A body
\* that throws at once reaches finally in this same segment; otherwise the
\* call suspends in await fn().
WithLockBody(p) ==
    /\ pc[p] = "awaitLock"
    /\ resolved[p]
    /\ IF outcome[p] = "throws"
       THEN LET x == withLockExit(mutex, outcome[p]) IN
            /\ mutex' = x.mutex
            /\ resolved' = Resolve([resolved EXCEPT ![p] = FALSE], x.resume)
            /\ releases' = [releases EXCEPT ![p] = @ + x.released]
            /\ result' = [result EXCEPT ![p] = x.result]
            /\ pc' = [pc EXCEPT ![p] = "settled"]
       ELSE /\ resolved' = [resolved EXCEPT ![p] = FALSE]
            /\ pc' = [pc EXCEPT ![p] = "awaitFn"]
            /\ UNCHANGED <<mutex, releases, result>>
    /\ UNCHANGED <<outcome, exceptWithLock>>

\* withLock(fn), after await fn() settled: finally { this.unlock() }
WithLockFinally(p) ==
    /\ pc[p] = "awaitFn"
    /\ LET x == withLockExit(mutex, outcome[p]) IN
        /\ mutex' = x.mutex
        /\ resolved' = Resolve(resolved, x.resume)
        /\ releases' = [releases EXCEPT ![p] = @ + x.released]
        /\ result' = [result EXCEPT ![p] = x.result]
    /\ pc' = [pc EXCEPT ![p] = "settled"]
    /\ UNCHANGED <<outcome, exceptWithLock>>

NextWithLock ==
    \E p \in Callers :
        \/ WithLockCall(p)
        \/ WithLockBody(p)
        \/ WithLockFinally(p)

SpecWithLock == InitWithLock /\ [][NextWithLock]_vars

\* the callers whose withLock call owns the mutex: lock() has been resolved
\* for them and their call has not settled
Owners ==
    {p \in Callers : pc[p] = "awaitFn" \/ (pc[p] = "awaitLock" /\ resolved[p])}

\* C22: a withLock call that has settled has called unlock() exactly once,
\* with a value when its body returned and with the body's failure when the
\* body threw or its promise rejected; a call that has not settled has not
\* released; and the mutex is held exactly while some call owns it, so the
\* release of a failed call frees the mutex or hands it to the next waiter.
C22_ReleaseOnEveryPath ==
    /\ \A p \in Callers :
          /\ pc[p] = "settled" =>
                /\ releases[p] = 1
                /\ result[p] = IF outcome[p] = "returns" THEN "value" ELSE "error"
          /\ pc[p] \in {"awaitLock", "awaitFn"} =>
                (releases[p] = 0 /\ result[p] = "none")
    /\ Cardinality(Owners) <= 1
    /\ mutex.locked <=> Owners # {}
    /\ Owners = {} => mutex.waitQueue = <<>>

\* three calls have settled, one on each exit path, each released once, and
\* the mutex is free
C22_Witness ==
    /\ \A p \in Callers : pc[p] = "settled" /\ releases[p] = 1
    /\ {outcome[p] : p \in Callers} = Outcomes
    /\ ~mutex.locked

\* -------------------------------------------------------- applySliceBlock
\* the thresholds tried: the ends of the byte range, values next to them
\* and two values inside
ThresholdSamples == {0, 1, 50, 100, 254, 255}

\* pixel i of the raster whose first pixel is v: the raster steps through
\* the byte range so that every byte value occurs as some pixel
Shade(v, i) == (v + 85 * i) % 256

\* applySliceBlock(inputData, outputData, width, rowStart, rowEnd, a, b):
\* for startPixel <= i < endPixel, outputData[i] = 0 when z <= a or z >= b,
\* and k = 255 otherwise
applySliceBlock(inp, out, w, rowStart, rowEnd, a, b) ==
    [i \in 1..Len(out) |->
        IF i - 1 >= rowStart * w /\ i - 1 < rowEnd * w
        THEN IF inp[i] <= a \/ inp[i] >= b THEN 0 ELSE 255
        ELSE out[i]]

\* new Uint8Array(new SharedArrayBuffer(n)): n zero bytes
Zeros(n) == [i \in 1..n |-> 0]

\* a raster of 1..MaxSliceDim rows and columns and thresholds
\* 0 <= limite_a <= limite_b <= 255
InitSlice ==
    /\ sliceWidth \in 1..MaxSliceDim
    /\ sliceRows \in 1..MaxSliceDim
    /\ \E v \in 0..255 :
          inputData = [i \in 1..(sliceWidth * sliceRows) |-> Shade(v, i - 1)]
    /\ limite_a \in ThresholdSamples
    /\ limite_b \in ThresholdSamples
    /\ limite_a <= limite_b
    /\ sliceOnce = <<>>
    /\ sliceTwice = <<>>
    /\ mutex = NewMutex
    /\ resolved = <<>>
    /\ pc = <<>>
    /\ ParkedExcept({"slice"})

\* the transform applied to the raster, all rows in one block
ApplySlice ==
    /\ sliceOnce = <<>>
    /\ sliceOnce' = applySliceBlock(inputData, Zeros(Len(inputData)), sliceWidth,
                                    0, sliceRows, limite_a, limite_b)
    /\ UNCHANGED <<inputData, sliceWidth, sliceRows, limite_a, limite_b,
                   sliceTwice, exceptSlice>>

\* the transform applied to its own output with the same thresholds
ApplySliceAgain ==
    /\ sliceOnce # <<>>
    /\ sliceTwice = <<>>
    /\ sliceTwice' = applySliceBlock(sliceOnce, Zeros(Len(sliceOnce)), sliceWidth,
                                     0, sliceRows, limite_a, limite_b)
    /\ UNCHANGED <<inputData, sliceWidth, sliceRows, limite_a, limite_b,
                   sliceOnce, exceptSlice>>

NextSlice == ApplySlice \/ ApplySliceAgain

SpecSlice == InitSlice /\ [][NextSlice]_vars

\* C25: for every input byte v and thresholds 0 <= low <= high <= 255 the
\* slice transform writes 255 when v <= low or v >= high and v otherwise.
C25_SliceKeepsBand ==
    sliceOnce # <<>> =>
        \A i \in 1..Len(inputData) :
            sliceOnce[i] = IF inputData[i] <= limite_a \/ inputData[i] >= limite_b
                           THEN 255 ELSE inputData[i]

\* C26: applying the slice transform to its own output with the same
\* thresholds changes no byte.
C26_SliceIdempotent == sliceTwice # <<>> => sliceTwice = sliceOnce

\* --------------------------------------------- worker parseArgs() and main()
\* A number as JavaScript has it: an integer, or NaN.
Num(v) == [nan |-> FALSE, val |-> v]
NaN == [nan |-> TRUE, val |-> 0]

\* a < b and a > b: false when either side is NaN
Lt(a, b) == ~a.nan /\ ~b.nan /\ a.val < b.val
Gt(a, b) == Lt(b, a)

\* parseInt(text) for the argument texts used here
parseInt(text) ==
    CASE text = "-1" -> Num(-1)
      [] text = "0" -> Num(0)
      [] text = "1" -> Num(1)
      [] text = "32" -> Num(32)
      [] text = "33" -> Num(33)
      [] text = "100" -> Num(100)
      [] text = "200" -> Num(200)
      [] text = "256" -> Num(256)
      [] OTHER -> NaN

\* the texts given for t1, t2 and nthreads
ArgTexts == {"-1", "0", "1", "32", "33", "100", "200", "256", "abc"}

MODE_NEG == 0
MODE_SLICE == 1

\* nthreads when the argument is omitted
DefaultThreads == 4

\* the default of validateSliceParams' third parameter
DefaultMaxValue == 255

\* validateSliceParams(t1, t2, maxValue): TRUE when it returns, FALSE when
\* it throws
validateSliceParams(t1, t2, maxValue) ==
    ~ \/ Lt(t1, Num(0)) \/ Gt(t1, maxValue)
      \/ Lt(t2, Num(0)) \/ Gt(t2, maxValue)
      \/ Gt(t1, t2)

\* the sequences over S of length at most n
SeqUpTo(S, n) == UNION {[1..k -> S] : k \in 0..n}

\* the result of a parseArgs() that ended the process
ExitOne == [exit |-> TRUE, mode |-> -1, t1 |-> NaN, t2 |-> NaN, nthreads |-> NaN]

\* the thread-count check at the end of parseArgs()
CheckThreads(mode, t1, t2, n) ==
    IF Lt(n, Num(MinThreads)) \/ Gt(n, Num(MaxThreads))
    THEN ExitOne
    ELSE [exit |-> FALSE, mode |-> mode, t1 |-> t1, t2 |-> t2, nthreads |-> n]

\* parseArgs() on args = process.argv.slice(2); a throw of
\* validateSliceParams is caught by main(), which exits with code 1
parseArgs(args) ==
    IF Len(args) < 3 THEN ExitOne
    ELSE IF args[3] = "negativo"
    THEN CheckThreads(MODE_NEG, Num(0), Num(255),
                      IF Len(args) >= 4 THEN parseInt(args[4])
                      ELSE Num(DefaultThreads))
    ELSE IF args[3] = "slice"
    THEN IF Len(args) < 5 THEN ExitOne
         ELSE LET t1 == parseInt(args[4])
                  t2 == parseInt(args[5])
                  n == IF Len(args) >= 6 THEN parseInt(args[6])
                       ELSE Num(DefaultThreads)
              IN  IF validateSliceParams(t1, t2, Num(DefaultMaxValue))
                  THEN CheckThreads(MODE_SLICE, t1, t2, n)
                  ELSE ExitOne
    ELSE ExitOne

\* the worker process started with a channel path, an output path (or
\* fewer arguments), a mode text and up to MaxExtraArgs further texts; the
\* raster the sender will deliver has maxv 1, 100 or 255
InitArgs ==
    /\ argv \in {<<>>, <<"fifo">>, <<"fifo", "out">>}
                \cup {<<"fifo", "out", m>> \o rest :
                        m \in {"negativo", "slice", "blur"},
                        rest \in SeqUpTo(ArgTexts, MaxExtraArgs)}
    /\ rasterMaxv \in {1, 100, 255}
    /\ parsedArgs = <<>>
    /\ argPc = "start"
    /\ mutex = NewMutex
    /\ resolved = <<>>
    /\ pc = <<>>
    /\ ParkedExcept({"args"})

\* main(): parseArgs()
MainParseArgs ==
    /\ argPc = "start"
    /\ parsedArgs' = parseArgs(argv)
    /\ argPc' = IF parsedArgs'.exit THEN "exit1" ELSE "parsed"
    /\ UNCHANGED <<argv, rasterMaxv, exceptArgs>>

\* main(): receiveImageData opens the channel
MainOpenChannel ==
    /\ argPc = "parsed"
    /\ argPc' = "opened"
    /\ UNCHANGED <<argv, parsedArgs, rasterMaxv, exceptArgs>>

\* main(): the raster has arrived; processWithThreadPool(inputPgm, mode, t1,
\* t2, nthreads) starts and schedules the tasks
MainSchedule ==
    /\ argPc = "opened"
    /\ argPc' = "scheduled"
    /\ UNCHANGED <<argv, parsedArgs, rasterMaxv, exceptArgs>>

NextArgs == MainParseArgs \/ MainOpenChannel \/ MainSchedule

SpecArgs == InitArgs /\ [][NextArgs]_vars

\* C27: the worker process schedules a slice run only when
\* 0 <= t1 <= t2 <= maxv of the raster it processes.
C27_SliceParamsChecked ==
    (argPc = "scheduled" /\ parsedArgs.mode = MODE_SLICE) =>
        /\ ~parsedArgs.t1.nan /\ ~parsedArgs.t2.nan
        /\ 0 <= parsedArgs.t1.val
        /\ parsedArgs.t1.val <= parsedArgs.t2.val
        /\ parsedArgs.t2.val <= rasterMaxv

\* the position of the thread-count argument for the mode given, or 0
ThreadsAt ==
    IF Len(argv) < 3 THEN 0
    ELSE IF argv[3] = "negativo" THEN 4
    ELSE IF argv[3] = "slice" THEN 6
    ELSE 0

\* C28: when the thread count is omitted parseArgs() returns nthreads = 4;
\* when the one given is not in 1..32 the process exits with code 1 without
\* opening the channel; the scheduler only runs with 1 <= nthreads <= 32.
C28_ThreadCountChecked ==
    /\ (argPc = "parsed" /\ Len(argv) < ThreadsAt) =>
          parsedArgs.nthreads = Num(DefaultThreads)
    /\ (ThreadsAt # 0 /\ Len(argv) >= ThreadsAt /\ argPc # "start"
            /\ ~ \E n \in MinThreads..MaxThreads : parseInt(argv[ThreadsAt]) = Num(n))
          => argPc = "exit1"
    /\ argPc \in {"opened", "scheduled"} =>
          /\ ~parsedArgs.nthreads.nan
          /\ parsedArgs.nthreads.val >= MinThreads
          /\ parsedArgs.nthreads.val <= MaxThreads

\* ----------------------------------------------------------- sendImageData
\* The sender process has read a raster with readPGM, which returns only a
\* PGM whose data holds exactly w * h bytes, and calls sendImageData.

\* the maxv values of the rasters that are sent
MaxvSamples == {1, 255, 65535}

\* A header that keeps the constructor's maxv.
SenderHeaderDefaultMaxv(p) ==
    [NewHeader EXCEPT !.w = p.w, !.h = p.h, !.mode = 0, !.t1 = 0, !.t2 = 0]

\* the Header the 'open' handler fills in for raster p
SenderHeader(p) ==
    [NewHeader EXCEPT !.w = p.w, !.h = p.h, !.maxv = p.maxv,
                      !.mode = 0, !.t1 = 0, !.t2 = 0]

\* readPGM returned a raster of w by h; both may be negative in the file,
\* their product is the number of bytes read
InitSender ==
    /\ \E w \in (-1)..MaxSendDim, h \in (-1)..MaxSendDim, maxv \in MaxvSamples :
          /\ w * h >= 0
          /\ sendPgm = PGM(w, h, maxv, [k \in 1..(w * h) |-> Pixel(k)])
    /\ sent = <<>>
    /\ flushed = 0
    /\ streamState = "none"
    /\ sendResult = "none"
    /\ mutex = NewMutex
    /\ resolved = <<>>
    /\ pc = <<>>
    /\ ParkedExcept({"sender"})

\* sendImageData(fifoPath, pgm): the promise is created and
\* fs.createWriteStream(fifoPath) starts opening the path
SendImageData ==
    /\ streamState = "none"
    /\ streamState' = "opening"
    /\ sendResult' = "pending"
    /\ UNCHANGED <<sendPgm, sent, flushed, exceptSender>>

\* the 'open' handler: write(header.toBuffer()), write(pgm.data), end()
StreamOpen ==
    /\ streamState = "opening"
    /\ sent' = toBuffer(SenderHeader(sendPgm)) \o sendPgm.data
    /\ streamState' = "ended"
    /\ UNCHANGED <<sendPgm, flushed, sendResult, exceptSender>>

\* the stream writes some more of the buffered bytes to the channel
StreamFlush ==
    /\ streamState = "ended"
    /\ \E n \in (flushed + 1)..Len(sent) : flushed' = n
    /\ UNCHANGED <<sendPgm, sent, streamState, sendResult, exceptSender>>

\* every byte is written and the descriptor closed: 'finish' resolves
StreamFinish ==
    /\ streamState = "ended"
    /\ flushed = Len(sent)
    /\ streamState' = "finished"
    /\ sendResult' = "resolved"
    /\ UNCHANGED <<sendPgm, sent, flushed, exceptSender>>

\* the open or a write fails: 'error' rejects, the stream is destroyed
StreamError ==
    /\ streamState \in {"opening", "ended"}
    /\ streamState' = "error"
    /\ sendResult' = "rejected"
    /\ UNCHANGED <<sendPgm, sent, flushed, exceptSender>>

NextSender ==
    \/ SendImageData
    \/ StreamOpen
    \/ StreamFlush
    \/ StreamFinish
    \/ StreamError

SpecSender == InitSender /\ [][NextSender]_vars

\* the bytes that have reached the channel
OnChannel == SubSeq(sent, 1, flushed)

\* C35: sendImageData writes exactly 24 header bytes that carry the raster's
\* width, height and maxv and zero for mode, t1 and t2, then exactly
\* width * height payload bytes, the raster's data, and ends the stream: the
\* channel carries a prefix of these bytes in this order, and when the
\* promise resolves it has carried all of them and nothing else.
C35_HeaderThenPayload ==
    /\ streamState \in {"none", "opening"} => sent = <<>>
    /\ sent # <<>> =>
          /\ Len(sent) = HeaderSize + sendPgm.w * sendPgm.h
          /\ fromBuffer(SubSeq(sent, 1, HeaderSize)) =
                [w |-> sendPgm.w, h |-> sendPgm.h, maxv |-> sendPgm.maxv,
                 mode |-> 0, t1 |-> 0, t2 |-> 0]
          /\ SubSeq(sent, HeaderSize + 1, Len(sent)) = sendPgm.data
    /\ flushed <= Len(sent)
    /\ streamState = "ended" => sent # <<>>
    /\ sendResult = "resolved" =>
          /\ streamState = "finished"
          /\ Len(OnChannel) = HeaderSize + sendPgm.w * sendPgm.h
          /\ OnChannel = sent

\* a raster of 2 by 2 with maxv 65535 was sent whole and the promise resolved
C35_Witness ==
    /\ sendResult = "resolved"
    /\ sendPgm.w = 2 /\ sendPgm.h = 2 /\ sendPgm.maxv = 65535
    /\ Len(OnChannel) = HeaderSize + 4
    /\ SubSeq(OnChannel, 9, 12) = <<255, 255, 0, 0>>

\* ------------------------------------------- Semaphore, with calls counted
\* Callers make wait() and signal() calls on one Semaphore created with
\* initialCount >= 0; the calls of each kind are counted.
InitSemCalls ==
    /\ semInitial \in 0..MaxCount
    /\ sem = NewSemaphore(semInitial)
    /\ signalCalls = 0
    /\ waitCalls = 0
    /\ mutex = NewMutex
    /\ resolved = [p \in Callers |-> FALSE]
    /\ pc = [p \in Callers |-> "idle"]
    /\ arrival = <<>>
    /\ handoff = {}
    /\ ParkedExcept({"sem", "semCalls"})

\* await sem.wait(): the promise executor
WaitCall(p) ==
    /\ pc[p] = "idle"
    /\ waitCalls < MaxSemCalls
    /\ LET r == SemWait(sem, p) IN
        /\ sem' = r.sem
        /\ resolved' = Resolve(resolved, r.resume)
    /\ pc' = [pc EXCEPT ![p] = "awaitSem"]
    /\ waitCalls' = waitCalls + 1
    /\ UNCHANGED <<mutex, arrival, handoff, semInitial, signalCalls, exceptSemCalls>>

\* the continuation of await sem.wait()
WaitReturn(p) ==
    /\ pc[p] = "awaitSem"
    /\ resolved[p]
    /\ resolved' = [resolved EXCEPT ![p] = FALSE]
    /\ pc' = [pc EXCEPT ![p] = "idle"]
    /\ UNCHANGED <<mutex, semVars, semCallVars, exceptSemCalls>>

\* sem.signal()
SignalCall(p) ==
    /\ pc[p] = "idle"
    /\ signalCalls < MaxSemCalls
    /\ LET r == SemSignal(sem) IN
        /\ sem' = r.sem
        /\ resolved' = Resolve(resolved, r.resume)
    /\ signalCalls' = signalCalls + 1
    /\ UNCHANGED <<mutex, pc, arrival, handoff, semInitial, waitCalls, exceptSemCalls>>

NextSemCalls ==
    \E p \in Callers :
        \/ WaitCall(p)
        \/ WaitReturn(p)
        \/ SignalCall(p)

SpecSemCalls == InitSemCalls /\ [][NextSemCalls]_vars

\* C36: after s signal() calls and w wait() calls on a Semaphore created
\* with initialCount c0 >= 0, the counter is max(0, c0 + s - w) and the
\* number of queued waiters is max(0, w - s - c0); so a positive counter
\* means that nobody is queued.
C36_CountAndWaiters ==
    /\ sem.count = Max(0, semInitial + signalCalls - waitCalls)
    /\ Len(sem.waitQueue) = Max(0, waitCalls - signalCalls - semInitial)
    /\ sem.count > 0 => sem.waitQueue = <<>>

\* more wait() calls than the initial count and the signals together cover:
\* two callers are queued although signals were made and the count was 1
C36_Witness ==
    /\ semInitial = 1
    /\ signalCalls = 1
    /\ waitCalls = 4
    /\ Len(sem.waitQueue) = 2
    /\ sem.count = 0

\* ------------------------------------- CompletionCoordinator.setTotalTasks
\* A body of setTotalTasks() that stores the total and leaves the flag.
SetTotalTasksBodyKeepsFlag(c, total) ==
    [c EXCEPT !.remainingTasks = total]

\* The function setTotalTasks() runs under the mutex, on the coordinator's
\* fields c: remainingTasks = total, completed = false.
SetTotalTasksBody(c, total) ==
    [c EXCEPT !.remainingTasks = total, !.completed = FALSE]

\* new CompletionCoordinator(N), N >= 1, with callers of taskCompleted(),
\* callers of waitForCompletion() and one caller of setTotalTasks()
InitReset ==
    /\ mutex = NewMutex
    /\ semDone = NewSemaphore(0)
    /\ totalTasks \in 1..MaxTasks
    /\ remainingTasks = totalTasks
    /\ completed = FALSE
    /\ resolved = [p \in TaskCallers \cup Waiters \cup {Resetter} |-> FALSE]
    /\ pc = [p \in TaskCallers \cup Waiters \cup {Resetter} |-> "idle"]
    /\ nCalls = 0
    /\ callIndex = [p \in TaskCallers |-> 0]
    /\ signals = 0
    /\ signalCall = 0
    /\ firstWaiter = 0
    /\ waitAt = -1
    /\ resetArg = 0
    /\ signalsAtReset = -1
    /\ ParkedExcept({"coord", "reset"})

\* setTotalTasks(total), first segment: withLock -> await this.lock()
SetTotalTasksCall(total) ==
    /\ pc[Resetter] = "idle"
    /\ LET r == MutexLock(mutex, Resetter) IN
        /\ mutex' = r.mutex
        /\ resolved' = Resolve(resolved, r.resume)
    /\ pc' = [pc EXCEPT ![Resetter] = "awaitLock"]
    /\ resetArg' = total
    /\ UNCHANGED <<coordVars, coordHistory, signalsAtReset, exceptReset>>

\* withLock, after lock() resolved: the function runs, synchronously
SetTotalTasksRun ==
    /\ pc[Resetter] = "awaitLock"
    /\ resolved[Resetter]
    /\ LET c == SetTotalTasksBody([remainingTasks |-> remainingTasks,
                                   completed |-> completed], resetArg)
       IN /\ remainingTasks' = c.remainingTasks
          /\ completed' = c.completed
    /\ resolved' = [resolved EXCEPT ![Resetter] = FALSE]
    /\ pc' = [pc EXCEPT ![Resetter] = "awaitFn"]
    /\ signalsAtReset' = signals
    /\ UNCHANGED <<mutex, semDone, totalTasks, coordHistory, resetArg, exceptReset>>

\* withLock, after await fn(): finally { this.unlock() }
SetTotalTasksUnlock ==
    /\ pc[Resetter] = "awaitFn"
    /\ LET r == MutexUnlock(mutex) IN
        /\ mutex' = r.mutex
        /\ resolved' = Resolve(resolved, r.resume)
    /\ pc' = [pc EXCEPT ![Resetter] = "awaitWithLock"]
    /\ UNCHANGED <<coordVars, coordHistory, resetVars, exceptReset>>

\* setTotalTasks(), after await this.mutex.withLock(...): the call returns
SetTotalTasksReturn ==
    /\ pc[Resetter] = "awaitWithLock"
    /\ pc' = [pc EXCEPT ![Resetter] = "done"]
    /\ UNCHANGED <<mutex, resolved, coordVars, coordHistory, resetVars, exceptReset>>

NextReset ==
    \/ NextCoord
    \/ \E total \in 0..MaxTasks : SetTotalTasksCall(total)
    \/ SetTotalTasksRun
    \/ SetTotalTasksUnlock
    \/ SetTotalTasksReturn

SpecReset == InitReset /\ [][NextReset]_vars

\* the function of setTotalTasks() runs in this step
ResetRuns == pc[Resetter] = "awaitLock" /\ pc'[Resetter] = "awaitFn"

\* The function of setTotalTasks(total) sets remaining to total and completed
\* to false and leaves semDone, its counter and its waiters, as they were.
ResetFrame ==
    [][ResetRuns =>
          /\ remainingTasks' = resetArg
          /\ ~completed'
          /\ semDone' = semDone
          /\ signals' = signals]_vars

\* C40 as stated, for every n: setTotalTasks(n) has the frame effect above,
\* and on a coordinator that had signalled once, a second signal has been
\* delivered exactly when n functions of taskCompleted() have run since.
C40_ResetResignalsAnyN ==
    /\ ResetFrame
    /\ [](signalsAtReset = 1 =>
             /\ signals <= 2
             /\ (signals = 2) <=> (resetArg - remainingTasks >= resetArg))

\* C40: setTotalTasks(n) has the frame effect above; and on a coordinator
\* that had signalled once, for n >= 1 a second signal has been delivered
\* exactly when n functions of taskCompleted() have run since, while for
\* n = 0 it is delivered only when one has run.
C40_ResetResignals ==
    /\ ResetFrame
    /\ [](signalsAtReset = 1 =>
             /\ signals <= 2
             /\ (signals = 2) <=>
                   (resetArg - remainingTasks >= Max(resetArg, 1)))

\* the coordinator signalled, setTotalTasks(1) ran, one more taskCompleted()
\* ran and signalled again: both callers of waitForCompletion() returned
C40_Witness ==
    /\ signalsAtReset = 1
    /\ resetArg = 1
    /\ signals = 2
    /\ remainingTasks = 0
    /\ Cardinality({w \in Waiters : pc[w] = "returned"}) = 2

====
